---- MODULE Spec2Model ----
(***************************************************************************)
(* WarpMe starship simulator: the shared game state (js/core/state.js)     *)
(* and the fixed-timestep simulation (js/core/simulation.js).              *)
(*                                                                         *)
(* Numbers.  Every real-valued quantity of the program (positions,         *)
(* velocities, hull, shield strength, subsystem hp, damage) is held in     *)
(* thousandths of its unit (Scale); products are divided back with \div.   *)
(* Subsystem power, throttle percent and headings are whole numbers.       *)
(*                                                                         *)
(* Geometry.  The scenarios explored keep every entity on the x axis:      *)
(* ships are spawned with y = 0, the simulation runs with the helm at 0 or *)
(* 180 and the spawned ships turn faster than 180 degrees per tick, so     *)
(* every heading a tick works on is 0 or 180, sin is 0, cos is 1 or -1 and *)
(* Math.hypot(dx, 0) is |dx|.  OnAxis states this and is checked with the  *)
(* model.  The helm orders themselves take any whole number of degrees.    *)
(*                                                                         *)
(* Randomness.  Math.random() is an input of the step: `shooters' is the   *)
(* set of ships whose 2% fire roll succeeds in a tick, `draws' the outcome *)
(* of the subsystem-damage rolls of the damageShip calls of a step, in     *)
(* call order.  crypto.randomUUID() hands out fresh ids in order.          *)
(***************************************************************************)
EXTENDS Integers, Sequences, FiniteSets, TLC

\* ------------------------------------------------------------- bounds
\* The exploration is bounded by an operator budget drawn at Init
\* (Scenarios, below); these are the sizes the scenarios are built from.
MaxShips == 2
MaxFire == 2
MaxTicks == 2
MaxRepairs == 2
MaxShots == 10
MaxOrders == 2
MaxPower == 4
MaxSubs == 3
MaxFrames == 3
MaxTurns == 3

\* -------------------------------------------------- program constants
Scale == 10 * 100
PhaserRange == 500
PhaserDamage == 15
TorpedoDamage == 30
TorpedoVelocity == 12
TorpedoLifetime == 300
TorpedoSize == 8
BeamLifetime == 15
RepairAmount == 25
RepairCooldown == 300
LogCap == 50
PlayerMaxVelocity == 8
PlayerSize == 25
NpcPhaserDamage == 10
NpcFireRange == 400
TickLength == 50
MaxCatchUp == 5
MagazineSize == 10
TorpedoReload == 60

Null == "null"
Player == "player"
Systems == {"engines", "weapons", "shields", "sensors"}

\* the subsystem names a command may be given: the four, and one unknown
SystemNames == Systems \cup {"warp"}

\* crypto.randomUUID(): the n-th id handed out to a ship / a projectile
ShipUuid(n) == <<"s1", "s2", "s3", "s4">>[n]
ProjUuid(n) ==
    <<"p1", "p2", "p3", "p4", "p5", "p6", "p7", "p8", "p9", "p10", "p11", "p12">>[n]

Min(a, b) == IF a < b THEN a ELSE b
Max(a, b) == IF a > b THEN a ELSE b
Abs(a) == IF a < 0 THEN -a ELSE a

\* JavaScript a % n: the remainder takes the sign of a
JsRem(a, n) == IF a >= 0 THEN a % n ELSE -((-a) % n)

\* JavaScript `v || d' on a number: 0 (and a missing field, written 0) is falsy
OrNum(v, d) == IF v = 0 THEN d ELSE v
\* JavaScript `v || d' on a string or null
OrStr(v, d) == IF v = Null THEN d ELSE v

\* Math.cos / Math.sin of a heading in degrees, on the axis
Cos(h) == CASE h = 0 -> 1 [] h = 180 -> -1
Sin(h) == CASE h = 0 -> 0 [] h = 180 -> 0

\* Math.hypot(b.x - a.x, b.y - a.y) with both on the axis
Hypot(ax, bx) == Abs(bx - ax)

\* Math.atan2(dy, dx) * 180 / Math.PI with dy = 0
Atan2Deg(dx) == IF dx < 0 THEN 180 ELSE 0

\* -------------------------------------------------------- factories
createSubsystems ==
    [s \in Systems |-> [hp |-> 100 * Scale, maxHp |-> 100 * Scale, power |-> 50]]

createShip(config) ==
    [id |-> config.id,
     faction |-> OrStr(config.faction, "neutral"),
     x |-> OrNum(config.x, 0),
     heading |-> OrNum(config.heading, 0),
     velocity |-> OrNum(config.velocity, 0),
     maxVelocity |-> OrNum(config.maxVelocity, 5 * Scale),
     turnRate |-> OrNum(config.turnRate, 3),
     subsystems |-> IF config.subsystems = <<>> THEN createSubsystems
                    ELSE config.subsystems[1],
     hull |-> OrNum(config.hull, 100 * Scale),
     maxHull |-> OrNum(config.maxHull, 100 * Scale),
     shieldStrength |-> OrNum(config.shieldStrength, 100 * Scale),
     maxShieldStrength |-> OrNum(config.maxShieldStrength, 100 * Scale),
     aiState |-> "patrol",
     patrolPoints |-> config.patrolPoints,
     patrolIndex |-> 0,
     target |-> Null,
     size |-> OrNum(config.size, 20 * Scale)]

createProjectile(config) ==
    [id |-> config.id,
     type |-> config.type,
     x |-> config.x,
     heading |-> config.heading,
     velocity |-> IF config.type = "torpedo" THEN TorpedoVelocity * Scale ELSE 50 * Scale,
     damage |-> IF config.type = "torpedo" THEN TorpedoDamage * Scale ELSE 10 * Scale,
     sourceId |-> config.sourceId,
     targetId |-> config.targetId,
     lifetime |-> IF config.type = "torpedo" THEN TorpedoLifetime ELSE 20,
     size |-> IF config.type = "torpedo" THEN TorpedoSize * Scale ELSE 3 * Scale]

\* the configurations handed to addShip by the scenario setup; a field left
\* out of the configuration object is written 0, Null or <<>>
BaseConfig ==
    [id |-> Null, faction |-> "hostile", x |-> 0, heading |-> 0, velocity |-> 0,
     maxVelocity |-> 0, turnRate |-> 3600, subsystems |-> <<>>, hull |-> 0,
     maxHull |-> 0, shieldStrength |-> 0, maxShieldStrength |-> 0,
     patrolPoints |-> <<>>, size |-> 0]

\* a damaged hostile next to the player
Raider == [BaseConfig EXCEPT !.x = 30 * Scale, !.hull = 8 * Scale,
                             !.shieldStrength = 2 * Scale]
\* a hostile next to the player, its shields nearly down
Cruiser == [BaseConfig EXCEPT !.x = 30 * Scale, !.shieldStrength = 2 * Scale]
\* hostiles at and just beyond phaser range
Picket == [BaseConfig EXCEPT !.x = 500 * Scale]
Outlier == [BaseConfig EXCEPT !.x = 510 * Scale]
\* a hostile with full power to its weapons
Gunship ==
    [BaseConfig EXCEPT
        !.x = 30 * Scale,
        !.subsystems = <<[createSubsystems EXCEPT !["weapons"].power = 100]>>]
\* a hostile whose configuration overcharges its weapons
Dreadnought ==
    [BaseConfig EXCEPT
        !.x = 30 * Scale,
        !.subsystems = <<[createSubsystems EXCEPT !["weapons"].power = 1000]>>]
\* a neutral on a patrol route, a friendly far from the player
Trader == [BaseConfig EXCEPT !.faction = "neutral", !.x = 40 * Scale,
                             !.patrolPoints = <<60 * Scale, 1000 * Scale>>]
Escort == [BaseConfig EXCEPT !.faction = "friendly", !.x = 600 * Scale]
\* neutrals with shields just below their maximum, with unpowered shields
Veteran == [BaseConfig EXCEPT !.faction = "neutral", !.x = 40 * Scale,
                              !.shieldStrength = 100 * Scale - 20]
Bare ==
    [BaseConfig EXCEPT
        !.faction = "neutral", !.x = 40 * Scale, !.shieldStrength = 2 * Scale,
        !.subsystems = <<[createSubsystems EXCEPT !["shields"].power = 0]>>]
\* a neutral between the two points of its route
Courier == [BaseConfig EXCEPT !.faction = "neutral", !.x = 40 * Scale,
                              !.patrolPoints = <<60 * Scale, 50 * Scale>>]

\* a hostile next to the player with no power to its weapons
Mute ==
    [BaseConfig EXCEPT
        !.x = 30 * Scale,
        !.subsystems = <<[createSubsystems EXCEPT !["weapons"].power = 0]>>]
\* a badly damaged neutral, a friendly at the distance it keeps
Wreck == [BaseConfig EXCEPT !.faction = "neutral", !.x = 40 * Scale,
                            !.hull = 8 * Scale]
Friend == [BaseConfig EXCEPT !.faction = "friendly", !.x = 500 * Scale]
\* hostiles at the distances where they change their mind, and beyond
Sentry == [BaseConfig EXCEPT !.x = 800 * Scale]
Warden == [BaseConfig EXCEPT !.x = 1500 * Scale]
Far == [BaseConfig EXCEPT !.x = 1600 * Scale]
\* a hostile next to the player that one phaser hit brings below 0.3 of its
\* hull
Bruised ==
    [BaseConfig EXCEPT
        !.x = 30 * Scale, !.hull = 31 * Scale, !.shieldStrength = 2 * Scale,
        !.subsystems = <<[createSubsystems EXCEPT !["weapons"].power = 100]>>]
\* a hostile at x with no power to its engines
Hulk(x) ==
    [BaseConfig EXCEPT
        !.x = x,
        !.subsystems = <<[createSubsystems EXCEPT !["engines"].power = 0]>>]

ShipConfigs == {Raider, Cruiser, Bruised, Picket, Outlier, Gunship, Dreadnought, Trader,
                Escort, Courier, Veteran, Bare, Mute, Wreck, Friend, Sentry, Warden, Far,
                Hulk(500 * Scale), Hulk(1000 * Scale)}

\* ------------------------------------------------------------- state
VARIABLES
    playerShip,       \* gameState.playerShip
    ships,            \* gameState.ships, in array order
    projectiles,      \* gameState.projectiles, in array order
    phaserBeams,      \* gameState.phaserBeams
    commsLog,         \* gameState.commsLog, newest first
    currentTarget,    \* gameState.currentTarget
    alertLevel,       \* gameState.alertLevel
    waypoint,         \* gameState.waypoint: <<>> (null) or <<x>>
    gameTime,         \* gameState.gameTime
    isPaused,         \* gameState.isPaused
    repairCooldowns,  \* gameState.repairCooldowns: the keys set so far
    listeners,        \* gameState.listeners: event kind -> callbacks, in order
    sim,              \* simulation: lastTick, running, onRender, animationId
    now,              \* performance.now(), in milliseconds
    pending,          \* the animation frames requested and not yet run
    timeouts,         \* the setTimeout callbacks of hailShip not yet run, in
                      \* order: the ship each one holds
    station,          \* weaponsStation: torpedoCount and torpedoCooldown
    uuids,            \* how many ship ids / projectile ids / frame ids
                      \* were handed out
    last,             \* the last step: operation, arguments, return value,
                      \* events emitted and damageShip calls made, in order
    hist,             \* the run so far: events and calls counted per entity
    budget,           \* what the environment may still do (see Scenarios)
    steer             \* a ship at the turn of moveNPCShip: its heading, turn
                      \* rate and engine effectiveness, and its last turn

vars == <<playerShip, ships, projectiles, phaserBeams, commsLog, currentTarget,
          alertLevel, waypoint, gameTime, isPaused, repairCooldowns, listeners,
          sim, now, pending, timeouts, station, uuids, last, hist, budget,
          steer>>

\* The world a step works on: the state, the random draws it may consume
\* (draws), what it emitted and called so far (emitted, invoked, calls,
\* removed, spliced), the ticks it executed and the render calls it made
\* (ticked, rendered), the phases of the ticks it completed (phases), what
\* each AI evaluation of a ship found and decided (npc), how far each ship
\* moved in a tick and what its engines could give then (moves), the
\* shields each regeneration phase found and left (regen), its return value
\* (ret) and whether it ended in an exception (threw).
World(draws) ==
    [playerShip |-> playerShip, ships |-> ships, projectiles |-> projectiles,
     phaserBeams |-> phaserBeams, commsLog |-> commsLog,
     currentTarget |-> currentTarget, alertLevel |-> alertLevel,
     waypoint |-> waypoint, gameTime |-> gameTime, isPaused |-> isPaused,
     repairCooldowns |-> repairCooldowns, listeners |-> listeners,
     sim |-> sim, now |-> now, pending |-> pending, timeouts |-> timeouts,
     station |-> station, asked |-> 0, uuids |-> uuids,
     ticked |-> 0, rendered |-> 0, phases |-> <<>>, npc |-> <<>>, moves |-> <<>>,
     regen |-> <<>>, seen |-> <<>>, halt |-> Null, late |-> 0,
     draws |-> draws, emitted |-> <<>>, invoked |-> <<>>, calls |-> <<>>, removed |-> <<>>,
     spliced |-> <<>>, ret |-> FALSE, threw |-> FALSE]

Event(kind, ref, val) == [kind |-> kind, ref |-> ref, val |-> val]

\* the call of callback `handler' for the at-th event of a step
Invocation(handler, kind, at) == [handler |-> handler, kind |-> kind, at |-> at]

\* GameState.on(event, callback)
on(w, event, callback) ==
    [w EXCEPT !.listeners =
        [e \in DOMAIN @ \cup {event} |->
            IF e = event
            THEN Append(IF event \in DOMAIN @ THEN @[event] ELSE <<>>, callback)
            ELSE @[e]]]

\* Array.prototype.indexOf, 1-based, 0 when absent
indexOf(seq, x) ==
    IF \E i \in 1..Len(seq) : seq[i] = x
    THEN CHOOSE i \in 1..Len(seq) : seq[i] = x /\ \A j \in 1..(i - 1) : seq[j] # x
    ELSE 0

\* GameState.off(event, callback)
off(w, event, callback) ==
    IF event \in DOMAIN w.listeners /\ indexOf(w.listeners[event], callback) > 0
    THEN [w EXCEPT !.listeners[event] =
             SubSeq(@, 1, indexOf(@, callback) - 1)
                 \o SubSeq(@, indexOf(@, callback) + 1, Len(@))]
    ELSE w

\* an emit that calls the callbacks last subscribed first
emit_Reversed(w, kind, ref, val) ==
    [w EXCEPT
        !.emitted = Append(@, Event(kind, ref, val)),
        !.invoked =
            IF kind \in DOMAIN w.listeners
            THEN @ \o [k \in 1..Len(w.listeners[kind]) |->
                          Invocation(w.listeners[kind][Len(w.listeners[kind]) + 1 - k],
                                     kind, Len(w.emitted) + 1)]
            ELSE @]

\* what a callback of an event of kind `kind' finds when it reads
\* gameState.currentTarget and looks the ship up in world w
View(w, kind) ==
    [kind |-> kind, currentTarget |-> w.currentTarget,
     target |-> IF w.currentTarget = Null THEN Null
                ELSE IF \E i \in 1..Len(w.ships) : w.ships[i].id = w.currentTarget
                     THEN w.currentTarget ELSE "undefined"]

\* GameState.emit: the callbacks of the kind run before emit returns, in
\* array order; they redraw the stations and leave the game state alone
emit(w, kind, ref, val) ==
    [w EXCEPT
        !.emitted = Append(@, Event(kind, ref, val)),
        !.seen =
            IF kind \in DOMAIN w.listeners
            THEN @ \o [k \in 1..Len(w.listeners[kind]) |-> View(w, kind)]
            ELSE @,
        !.invoked =
            IF kind \in DOMAIN w.listeners
            THEN @ \o [k \in 1..Len(w.listeners[kind]) |->
                          Invocation(w.listeners[kind][k], kind, Len(w.emitted) + 1)]
            ELSE @]

\* GameState.addCommsMessage
addCommsMessage(w, sender, message, type) ==
    LET msg == [sender |-> sender, message |-> message, type |-> type,
                timestamp |-> w.gameTime]
        log1 == <<msg>> \o w.commsLog
        log2 == IF Len(log1) > LogCap THEN SubSeq(log1, 1, Len(log1) - 1) ELSE log1
    IN emit([w EXCEPT !.commsLog = log2], "commsMessage", sender, 0)

\* Array.prototype.findIndex on gameState.ships, 1-based, 0 when absent
findIndex(shipSeq, shipId) ==
    IF \E i \in 1..Len(shipSeq) : shipSeq[i].id = shipId
    THEN CHOOSE i \in 1..Len(shipSeq) :
             /\ shipSeq[i].id = shipId
             /\ \A j \in 1..(i - 1) : shipSeq[j].id # shipId
    ELSE 0

splice(seq, i) == SubSeq(seq, 1, i - 1) \o SubSeq(seq, i + 1, Len(seq))

\* a removeShip that announces the ship and keeps it
removeShip_Keep(w, shipId) == emit(w, "shipDestroyed", shipId, 0)

\* a removeShip that announces a ship whether it found one or not
removeShip_Loud(w, shipId) ==
    LET index == findIndex(w.ships, shipId) IN
    emit([w EXCEPT !.ships = IF index > 0 THEN splice(@, index) ELSE @,
                   !.currentTarget = IF @ = shipId THEN Null ELSE @],
         "shipDestroyed", shipId, 0)

\* GameState.removeShip
removeShip(w, shipId) ==
    LET index == findIndex(w.ships, shipId) IN
    IF index > 0
    THEN LET w1 == [w EXCEPT !.ships = splice(@, index)]
             w2 == emit(w1, "shipDestroyed", shipId, 0)
         IN IF w2.currentTarget = shipId
            THEN [w2 EXCEPT !.currentTarget = Null]
            ELSE w2
    ELSE w

\* GameState.hailShip(shipId): the log entry names the ship; the callback
\* handed to setTimeout holds the ship object found now
hailShip(w, shipId) ==
    LET index == findIndex(w.ships, shipId) IN
    IF index = 0 THEN w
    ELSE [addCommsMessage(w, "COMMS", shipId, "hail")
             EXCEPT !.timeouts = Append(@, w.ships[index])]

\* the callback hailShip handed to setTimeout: the held ship answers with one
\* of the lines of its faction
Respond(w, ship) ==
    addCommsMessage([w EXCEPT !.timeouts = Tail(@)], ship.id, ship.faction, "hail")

\* GameState.getShip: the ship it resolves to (Player, a ship id) or Null
getShip(w, shipId) ==
    IF shipId = Player THEN Player
    ELSE IF findIndex(w.ships, shipId) > 0 THEN shipId
    ELSE Null

\* the ship object a reference denotes
ShipAt(w, ref) ==
    IF ref = Player THEN w.playerShip ELSE w.ships[findIndex(w.ships, ref)]

PutShip(w, ref, ship) ==
    IF ref = Player THEN [w EXCEPT !.playerShip = ship]
    ELSE [w EXCEPT !.ships[findIndex(w.ships, ref)] = ship]

\* Simulation.getSystemEffectiveness: (hp/100) * (power/100), in thousandths
getSystemEffectiveness(ship, system) ==
    (ship.subsystems[system].hp * ship.subsystems[system].power) \div (10 * Scale)

\* the next outcome of the subsystem-damage roll: "none" (Math.random() >= 0.3)
\* or the subsystem chosen
NextDraw(w) == IF w.draws = <<>> THEN "none" ELSE Head(w.draws)

\* an absorption the shield strength does not cap
ShieldAbsorb_Uncapped(ship, damage) ==
    (damage * ship.subsystems["shields"].power * 8) \div Scale

\* a destruction that leaves the hull where the damage put it
FloorHull_Skip(ship) == ship

\* a destruction that removes the player ship like any other
IsRemovable_Any(ship) == TRUE

\* GameState.damageShip: what the shields absorb of `damage'
ShieldAbsorb(ship, damage) ==
    LET shieldEffectiveness == ship.subsystems["shields"].power
    IN Min(ship.shieldStrength, (damage * shieldEffectiveness * 8) \div Scale)

\* GameState.damageShip: the hull's share of `damage'
HullDamage(ship, damage) == damage - ShieldAbsorb(ship, damage)

\* a roll taken for every hit, however light
SubsystemHit_Any(w, ship, damage) == NextDraw(w)

\* GameState.damageShip: the subsystem the hit damages, "none" when the hull
\* damage is at most 5 or the roll fails
SubsystemHit(w, ship, damage) ==
    IF HullDamage(ship, damage) > 5 * Scale THEN NextDraw(w) ELSE "none"

\* the roll of SubsystemHit, taken from the draws
ConsumeDraw(w, ship, damage) ==
    [w EXCEPT !.draws = IF HullDamage(ship, damage) > 5 * Scale /\ @ # <<>>
                        THEN Tail(@) ELSE @]

\* GameState.damageShip: the ship after shields, hull and subsystem took
\* their share
Damaged(ship, damage, system) ==
    [ship EXCEPT
        !.shieldStrength = @ - ShieldAbsorb(ship, damage),
        !.hull = @ - HullDamage(ship, damage),
        !.subsystems =
            IF system \in Systems
            THEN [@ EXCEPT ![system].hp = Max(0, @ - HullDamage(ship, damage) \div 2)]
            ELSE @]

\* GameState.damageShip: the player's subsystem damage is reported
ReportHit(w, ship, system) ==
    IF system \in Systems /\ ship.id = Player
    THEN addCommsMessage(w, "DAMAGE CONTROL", system, "alert")
    ELSE w

\* GameState.damageShip: the destruction check and its floor
Destroyed(ship) == ship.hull <= 0
FloorHull(ship) == [ship EXCEPT !.hull = 0]

\* GameState.damageShip: a destroyed ship other than the player's is removed
IsRemovable(ship) == ship.id # Player

\* GameState.damageShip: the branch taken at hull <= 0
Destroy(w, ref, ship) ==
    IF IsRemovable(ship)
    THEN addCommsMessage(
             removeShip([PutShip(w, ref, FloorHull(ship)) EXCEPT
                            !.removed = Append(@, ship.id)], ship.id),
             "TACTICAL", "destroyed", "info")
    ELSE addCommsMessage(
             emit(PutShip(w, ref, FloorHull(ship)), "playerDestroyed", ship.id, 0),
             "SYSTEM", "HULL BREACH", "alert")

\* the record of a damageShip call at its return: the ship as it was found
\* (before) and as it is left (after), in world w
Returned(w, before, after, damage, by) ==
    [w EXCEPT !.calls = Append(@,
        [target |-> before.id, damage |-> damage, by |-> by,
         shieldPower |-> before.subsystems["shields"].power,
         shieldBefore |-> before.shieldStrength,
         shieldAfter |-> after.shieldStrength,
         hullBefore |-> before.hull,
         hullAfter |-> after.hull,
         hpBefore |-> [s \in Systems |-> before.subsystems[s].hp],
         hpAfter |-> [s \in Systems |-> after.subsystems[s].hp],
         present |-> getShip(w, before.id) # Null])]

\* GameState.damageShip from the shipDamaged event on, hurt being the ship
\* after the damage
ConcludeDamage(w, ref, ship, hurt, damage, by) ==
    Returned(IF Destroyed(hurt) THEN Destroy(w, ref, hurt) ELSE w,
             ship,
             IF Destroyed(hurt) THEN FloorHull(hurt) ELSE hurt,
             damage, by)

\* GameState.damageShip on `ship', the roll having chosen `system'
DamageAs(w, ref, ship, damage, by, system) ==
    ConcludeDamage(
        emit(ReportHit(ConsumeDraw(PutShip(w, ref, Damaged(ship, damage, system)),
                                   ship, damage),
                       ship, system),
             "shipDamaged", ship.id, damage),
        ref, ship, Damaged(ship, damage, system), damage, by)

\* GameState.damageShip(ship, damage); `by' names the caller in the record
\* of the call and is no part of the program
damageShip(w, ref, damage, by) ==
    DamageAs(w, ref, ShipAt(w, ref), damage, by,
             SubsystemHit(w, ShipAt(w, ref), damage))

\* a weapons check that ignores the power setting
WeaponsOffline_HpOnly(weapons) == weapons.hp <= 0

\* a range check that excludes the range itself
OutOfRange_AtRange(distance) == distance >= PhaserRange * Scale

\* GameState.fireWeapon: the checks before any effect
WeaponsOffline(weapons) == weapons.hp <= 0 \/ weapons.power <= 0
OutOfRange(distance) == distance > PhaserRange * Scale

\* GameState.fireWeapon(type, targetId)
fireWeapon(w, type, targetId) ==
    LET ship == w.playerShip
        weapons == ship.subsystems["weapons"]
        effectiveness == getSystemEffectiveness(ship, "weapons")
        target == getShip(w, OrStr(targetId, w.currentTarget))
        distance == Hypot(ship.x, ShipAt(w, target).x)
    IN
    IF WeaponsOffline(weapons)
    THEN [addCommsMessage(w, "SYSTEM", "Weapons offline!", "alert") EXCEPT !.ret = FALSE]
    ELSE IF type = "phaser"
    THEN IF target = Null
         THEN [addCommsMessage(w, "SYSTEM", "No target locked!", "alert")
                  EXCEPT !.ret = FALSE]
         ELSE IF OutOfRange(distance)
         THEN [addCommsMessage(w, "SYSTEM", "Target out of phaser range!", "alert")
                  EXCEPT !.ret = FALSE]
         ELSE LET beam == [x1 |-> ship.x, x2 |-> ShipAt(w, target).x,
                           lifetime |-> BeamLifetime]
                  w1 == [w EXCEPT !.phaserBeams = Append(@, beam)]
                  damage == PhaserDamage * effectiveness
                  w2 == damageShip(w1, target, damage, "phaser")
              IN [emit(w2, "weaponFired", "phaser", 0) EXCEPT !.ret = TRUE]
    ELSE IF type = "torpedo"
    THEN LET projectile == createProjectile(
                 [id |-> ProjUuid(w.uuids.proj + 1), type |-> "torpedo",
                  x |-> ship.x, heading |-> ship.heading, sourceId |-> Player,
                  targetId |-> OrStr(targetId, w.currentTarget)])
             armed == [projectile EXCEPT !.damage = (@ * effectiveness) \div Scale]
             w1 == [w EXCEPT !.projectiles = Append(@, armed),
                             !.uuids.proj = @ + 1]
         IN [emit(w1, "weaponFired", "torpedo", 0) EXCEPT !.ret = TRUE]
    ELSE [w EXCEPT !.ret = FALSE]

\* GameState.addShip(config)
addShip(w, config) ==
    LET ship == createShip([config EXCEPT !.id = ShipUuid(w.uuids.ship + 1)])
        w1 == [w EXCEPT !.ships = Append(@, ship), !.uuids.ship = @ + 1]
    IN emit(w1, "shipAdded", ship.id, 0)

\* GameState.setTarget(shipId)
setTarget(w, shipId) ==
    emit([w EXCEPT !.currentTarget = shipId], "targetChanged", shipId, 0)

\* a fireTorpedo that takes the torpedo out of the magazine before it asks
\* the core
fireTorpedo_Eager(w) ==
    IF w.station.torpedoCooldown > 0 \/ w.station.torpedoCount <= 0 THEN w
    ELSE [fireWeapon(w, "torpedo", w.currentTarget)
             EXCEPT !.asked = @ + 1,
                    !.station = [torpedoCount |-> @.torpedoCount - 1,
                                 torpedoCooldown |-> TorpedoReload]]

\* the station after a fireWeapon that returned `ret'
Launched(w, ret) ==
    IF ret
    THEN [w EXCEPT !.station = [torpedoCount |-> @.torpedoCount - 1,
                                torpedoCooldown |-> TorpedoReload]]
    ELSE w

\* WeaponsStation.fireTorpedo; `asked' counts its fireWeapon calls
fireTorpedo(w) ==
    IF w.station.torpedoCooldown > 0 \/ w.station.torpedoCount <= 0 THEN w
    ELSE Launched([fireWeapon(w, "torpedo", w.currentTarget) EXCEPT !.asked = @ + 1],
                  fireWeapon(w, "torpedo", w.currentTarget).ret)

\* WeaponsStation.update: if (this.torpedoCooldown > 0) this.torpedoCooldown--
stationUpdate(w) ==
    IF w.station.torpedoCooldown > 0
    THEN [w EXCEPT !.station.torpedoCooldown = @ - 1]
    ELSE w

\* a setPower that keeps the total allocation within 200
setPower_Budgeted(w, systemName, power) ==
    LET clamped == Max(0, Min(100, power))
        others == Systems \ {systemName}
        Sum[S \in SUBSET others] ==
            IF S = {} THEN 0
            ELSE LET s == CHOOSE s \in S : TRUE
                 IN w.playerShip.subsystems[s].power + Sum[S \ {s}]
        w1 == [w EXCEPT !.playerShip.subsystems[systemName].power = clamped]
    IN IF systemName \in Systems /\ Sum[others] + clamped <= 200
       THEN emit(w1, "powerChanged", systemName, clamped)
       ELSE w

\* GameState.setPower(systemName, power); an unknown name finds no system
setPower(w, systemName, power) ==
    LET clamped == Max(0, Min(100, power))
        w1 == [w EXCEPT !.playerShip.subsystems[systemName].power = clamped]
    IN IF systemName \in Systems
       THEN emit(w1, "powerChanged", systemName, clamped)
       ELSE w

\* a repair that never waits
OnCooldown_Never(cooldowns, systemName) == FALSE

\* repairCooldowns[systemName] > 0, false for a key never set (undefined > 0)
OnCooldown(cooldowns, systemName) ==
    systemName \in DOMAIN cooldowns /\ cooldowns[systemName] > 0

SetKey(f, k, v) == [x \in DOMAIN f \cup {k} |-> IF x = k THEN v ELSE f[x]]

\* GameState.repairSubsystem(systemName); for a name that is no subsystem
\* the lookup yields undefined and reading its hp raises a TypeError
repairSubsystem(w, systemName) ==
    LET system == w.playerShip.subsystems[systemName] IN
    IF OnCooldown(w.repairCooldowns, systemName) THEN [w EXCEPT !.ret = FALSE]
    ELSE IF systemName \notin DOMAIN w.playerShip.subsystems
    THEN [w EXCEPT !.threw = TRUE]
    ELSE IF system.hp >= system.maxHp THEN [w EXCEPT !.ret = FALSE]
    ELSE LET w1 == [w EXCEPT
                       !.playerShip.subsystems[systemName].hp =
                           Min(system.maxHp, @ + RepairAmount * Scale),
                       !.repairCooldowns = SetKey(@, systemName, RepairCooldown)]
             w2 == addCommsMessage(w1, "ENGINEERING", systemName, "info")
         IN [emit(w2, "repairStarted", systemName, 0) EXCEPT !.ret = TRUE]

\* GameState.setWaypoint(x, y), with y = 0
setWaypoint(w, x) ==
    emit([w EXCEPT !.waypoint = <<x>>], "waypointSet", Null, x)

\* HelmStation.setThrottle(percent)
setThrottle(w, percent) ==
    LET ship == w.playerShip
        engineEffectiveness == getSystemEffectiveness(ship, "engines")
    IN [w EXCEPT !.playerShip.velocity =
                     (percent * ship.maxVelocity * engineEffectiveness)
                         \div (100 * Scale)]

\* a helm that takes the remainder once: negative for negative degrees
setHeading_Rem(w, heading) ==
    [w EXCEPT !.playerShip.heading = JsRem(heading, 360)]

\* HelmStation.setHeading(heading)
setHeading(w, heading) ==
    [w EXCEPT !.playerShip.heading = JsRem(JsRem(heading, 360) + 360, 360)]

\* HelmStation.turn(degrees)
turn(w, degrees) ==
    [w EXCEPT !.playerShip.heading = JsRem(JsRem(@ + degrees, 360) + 360, 360)]

\* ------------------------------------------------------ the simulation
Infinity == 2000000000

\* the ship found as `before' has moved and is now `ship'
Moved(w, ship, before) ==
    [w EXCEPT !.moves =
        Append(@, [id |-> ship.id, step |-> Abs(ship.x - before.x),
                   maxVelocity |-> ship.maxVelocity,
                   engines |-> getSystemEffectiveness(ship, "engines"),
                   state |-> ship.aiState, velocity |-> ship.velocity,
                   x |-> before.x, patrolPoints |-> ship.patrolPoints,
                   patrolIndex |-> <<before.patrolIndex, ship.patrolIndex>>,
                   heading |-> <<before.heading, ship.heading>>])]

\* a player ship that moves by its velocity whatever its engines give
updatePlayerShip_Nominal(w) ==
    [w EXCEPT !.playerShip.x = @ + Cos(w.playerShip.heading) * w.playerShip.velocity]

\* a player ship that stops where its waypoint is
updatePlayerShip_AutoStop(w) ==
    LET x1 == w.playerShip.x
                  + Cos(w.playerShip.heading)
                        * ((w.playerShip.velocity
                               * getSystemEffectiveness(w.playerShip, "engines"))
                              \div Scale)
    IN IF w.waypoint # <<>> /\ w.playerShip.velocity > 0
          /\ Hypot(x1, w.waypoint[1]) < 20 * Scale
       THEN emit([addCommsMessage([w EXCEPT !.playerShip.x = x1], "NAVIGATION",
                                  "Waypoint reached.", "info")
                     EXCEPT !.waypoint = <<>>, !.playerShip.velocity = 0],
                 "waypointCleared", Null, 0)
       ELSE [w EXCEPT !.playerShip.x = x1]

\* Simulation.updatePlayerShip
updatePlayerShip(w) ==
    LET ship == w.playerShip
        engineEffectiveness == getSystemEffectiveness(ship, "engines")
        effectiveVelocity == (ship.velocity * engineEffectiveness) \div Scale
        x1 == ship.x + Cos(ship.heading) * effectiveVelocity
        w1 == [w EXCEPT !.playerShip.x = x1]
    IN IF w1.waypoint # <<>> /\ ship.velocity > 0
          /\ Hypot(x1, w1.waypoint[1]) < 20 * Scale
       THEN LET w2 == addCommsMessage(w1, "NAVIGATION", "Waypoint reached.", "info")
            IN emit([w2 EXCEPT !.waypoint = <<>>], "waypointCleared", Null, 0)
       ELSE w1

\* an evaluation in which a hostile in range attacks however damaged it is
updateNPCAI_AttackFirst(w, ship) ==
    LET distToPlayer == Hypot(ship.x, w.playerShip.x)
    IN CASE ship.faction = "friendly" ->
              IF distToPlayer > 500 * Scale
              THEN [ship EXCEPT !.aiState = "approach", !.target = Player]
              ELSE [ship EXCEPT !.aiState = "patrol"]
         [] ship.faction = "neutral" -> [ship EXCEPT !.aiState = "patrol"]
         [] ship.faction = "hostile" ->
              IF distToPlayer < 800 * Scale
              THEN [ship EXCEPT !.aiState = "attack", !.target = Player]
              ELSE IF 10 * ship.hull < 3 * ship.maxHull
              THEN [ship EXCEPT !.aiState = "flee"]
              ELSE IF distToPlayer < 1500 * Scale
              THEN [ship EXCEPT !.aiState = "approach", !.target = Player]
              ELSE [ship EXCEPT !.aiState = "patrol"]
         [] OTHER -> ship

\* an evaluation that has a hostile flee below 0.1 of its hull
updateNPCAI_Brave(w, ship) ==
    LET distToPlayer == Hypot(ship.x, w.playerShip.x)
    IN CASE ship.faction = "friendly" ->
              IF distToPlayer > 500 * Scale
              THEN [ship EXCEPT !.aiState = "approach", !.target = Player]
              ELSE [ship EXCEPT !.aiState = "patrol"]
         [] ship.faction = "neutral" -> [ship EXCEPT !.aiState = "patrol"]
         [] ship.faction = "hostile" ->
              IF 10 * ship.hull < ship.maxHull
              THEN [ship EXCEPT !.aiState = "flee"]
              ELSE IF distToPlayer < 800 * Scale
              THEN [ship EXCEPT !.aiState = "attack", !.target = Player]
              ELSE IF distToPlayer < 1500 * Scale
              THEN [ship EXCEPT !.aiState = "approach", !.target = Player]
              ELSE [ship EXCEPT !.aiState = "patrol"]
         [] OTHER -> ship

\* an evaluation whose distance limits include the limit itself
updateNPCAI_Inclusive(w, ship) ==
    LET distToPlayer == Hypot(ship.x, w.playerShip.x)
    IN CASE ship.faction = "friendly" ->
              IF distToPlayer >= 500 * Scale
              THEN [ship EXCEPT !.aiState = "approach", !.target = Player]
              ELSE [ship EXCEPT !.aiState = "patrol"]
         [] ship.faction = "neutral" -> [ship EXCEPT !.aiState = "patrol"]
         [] ship.faction = "hostile" ->
              IF 10 * ship.hull < 3 * ship.maxHull
              THEN [ship EXCEPT !.aiState = "flee"]
              ELSE IF distToPlayer <= 800 * Scale
              THEN [ship EXCEPT !.aiState = "attack", !.target = Player]
              ELSE IF distToPlayer <= 1500 * Scale
              THEN [ship EXCEPT !.aiState = "approach", !.target = Player]
              ELSE [ship EXCEPT !.aiState = "patrol"]
         [] OTHER -> ship

\* Simulation.updateNPCAI: the ship after the evaluation
updateNPCAI(w, ship) ==
    LET player == w.playerShip
        distToPlayer == Hypot(ship.x, player.x)
    IN CASE ship.faction = "friendly" ->
              IF distToPlayer > 500 * Scale
              THEN [ship EXCEPT !.aiState = "approach", !.target = Player]
              ELSE [ship EXCEPT !.aiState = "patrol"]
         [] ship.faction = "neutral" -> [ship EXCEPT !.aiState = "patrol"]
         [] ship.faction = "hostile" ->
              \* hull / maxHull < 0.3
              IF 10 * ship.hull < 3 * ship.maxHull
              THEN [ship EXCEPT !.aiState = "flee"]
              ELSE IF distToPlayer < 800 * Scale
              THEN [ship EXCEPT !.aiState = "attack", !.target = Player]
              ELSE IF distToPlayer < 1500 * Scale
              THEN [ship EXCEPT !.aiState = "approach", !.target = Player]
              ELSE [ship EXCEPT !.aiState = "patrol"]
         [] OTHER -> ship

\* a ship that fires without looking at what its weapons can give
npcFireAtPlayer_Unchecked(w, ship) ==
    IF Hypot(ship.x, w.playerShip.x) < NpcFireRange * Scale
    THEN damageShip([w EXCEPT !.phaserBeams =
                                  Append(@, [x1 |-> ship.x, x2 |-> w.playerShip.x,
                                             lifetime |-> BeamLifetime])],
                    Player, NpcPhaserDamage * getSystemEffectiveness(ship, "weapons"),
                    ship.id)
    ELSE w

\* Simulation.npcFireAtPlayer
npcFireAtPlayer(w, ship) ==
    LET weaponEffectiveness == getSystemEffectiveness(ship, "weapons")
        player == w.playerShip
        distance == Hypot(ship.x, player.x)
    IN IF weaponEffectiveness <= 0 THEN w
       ELSE IF distance < NpcFireRange * Scale
       THEN LET beam == [x1 |-> ship.x, x2 |-> player.x, lifetime |-> BeamLifetime]
                w1 == [w EXCEPT !.phaserBeams = Append(@, beam)]
                damage == NpcPhaserDamage * weaponEffectiveness
            IN damageShip(w1, Player, damage, ship.id)
       ELSE w

\* while (angleDiff > 180) angleDiff -= 360; while (angleDiff < -180) angleDiff += 360
\* (angles in thousandths of a degree)
RECURSIVE NormalizeDiff(_)
NormalizeDiff(d) ==
    IF d > 180 * Scale THEN NormalizeDiff(d - 360 * Scale)
    ELSE IF d < -180 * Scale THEN NormalizeDiff(d + 360 * Scale)
    ELSE d

\* while (ship.heading < 0) ship.heading += 360; while (ship.heading >= 360) ship.heading -= 360
RECURSIVE NormalizeHeading(_)
NormalizeHeading(h) ==
    IF h < 0 THEN NormalizeHeading(h + 360 * Scale)
    ELSE IF h >= 360 * Scale THEN NormalizeHeading(h - 360 * Scale)
    ELSE h

\* a turn that never lands on the bearing
Turned_Overshoot(heading, targetAngle, turnSpeed) ==
    NormalizeHeading(IF NormalizeDiff(targetAngle - heading) > 0
                     THEN heading + turnSpeed ELSE heading - turnSpeed)

\* Simulation.moveNPCShip, the turn towards the target: the heading after a
\* turn from `heading' towards the bearing `targetAngle' with turn speed
\* `turnSpeed', all in thousandths of a degree
Turned(heading, targetAngle, turnSpeed) ==
    LET angleDiff == NormalizeDiff(targetAngle - heading)
    IN NormalizeHeading(IF Abs(angleDiff) < turnSpeed
                        THEN targetAngle
                        ELSE IF angleDiff > 0
                        THEN heading + turnSpeed
                        ELSE heading - turnSpeed)

\* a route that does not start again after its last point
Advanced_NoWrap(patrolIndex, length) == patrolIndex + 1

\* Simulation.moveNPCShip, patrol: (ship.patrolIndex + 1) % ship.patrolPoints.length
Advanced(patrolIndex, length) == (patrolIndex + 1) % length

\* Simulation.moveNPCShip, the switch on aiState: what it leaves in
\* [has, targetX, velocity, patrolIndex, fire]
NpcIntent(w, ship, shooters) ==
    LET engineEffectiveness == getSystemEffectiveness(ship, "engines")
        player == w.playerShip
        keep == [has |-> FALSE, targetX |-> 0, velocity |-> ship.velocity,
                 patrolIndex |-> ship.patrolIndex, fire |-> FALSE]
    IN CASE ship.aiState = "patrol" ->
              IF Len(ship.patrolPoints) > 0
              THEN LET point == ship.patrolPoints[ship.patrolIndex + 1]
                       dist == Hypot(ship.x, point)
                   IN [keep EXCEPT
                          !.has = TRUE, !.targetX = point,
                          !.patrolIndex =
                              IF dist < 30 * Scale
                              THEN Advanced(ship.patrolIndex, Len(ship.patrolPoints))
                              ELSE @,
                          !.velocity =
                              (ship.maxVelocity * 5 * engineEffectiveness)
                                  \div (10 * Scale)]
              ELSE [keep EXCEPT !.velocity = 0]
         [] ship.aiState = "approach" ->
              IF ship.target = Player
              THEN [keep EXCEPT
                      !.has = TRUE, !.targetX = player.x,
                      !.velocity = (ship.maxVelocity * 8 * engineEffectiveness)
                                       \div (10 * Scale)]
              ELSE keep
         [] ship.aiState = "attack" ->
              IF ship.target = Player
              THEN [keep EXCEPT
                      !.has = TRUE, !.targetX = player.x,
                      !.velocity = (ship.maxVelocity * engineEffectiveness) \div Scale,
                      !.fire = Hypot(ship.x, player.x) < NpcFireRange * Scale
                               /\ ship.id \in shooters]
              ELSE keep
         [] ship.aiState = "flee" ->
              [keep EXCEPT
                  !.has = TRUE,
                  !.targetX = ship.x + Cos(Atan2Deg(ship.x - player.x)) * 500 * Scale,
                  !.velocity = (ship.maxVelocity * engineEffectiveness) \div Scale]
         [] OTHER -> keep

\* Simulation.moveNPCShip, the turn towards the target: the new heading, in
\* whole degrees on the axis
TurnTowards(ship, targetX) ==
    Turned(ship.heading * Scale, Atan2Deg(targetX - ship.x) * Scale,
           \* turnRate * engineEffectiveness, in thousandths of a degree
           ship.turnRate * getSystemEffectiveness(ship, "engines")) \div Scale

\* Simulation.moveNPCShip: the heading after the turn
Heading(ship, intent) ==
    IF intent.has THEN TurnTowards(ship, intent.targetX) ELSE ship.heading

\* Simulation.moveNPCShip: the ship after turn and move
Steered(ship, intent, heading) ==
    [ship EXCEPT !.velocity = intent.velocity,
                 !.patrolIndex = intent.patrolIndex,
                 !.heading = heading,
                 !.x = @ + Cos(heading) * intent.velocity]

\* Simulation.moveNPCShip, the attack case: the shot at the player
Engage(w, ship, intent) == IF intent.fire THEN npcFireAtPlayer(w, ship) ELSE w

MoveAs(w, i, ship, intent) ==
    [Engage(w, ship, intent) EXCEPT
        !.ships[i] = Steered(ship, intent, Heading(ship, intent))]

\* Simulation.moveNPCShip on the ship at index i (after its AI evaluation)
moveNPCShip(w, i, shooters) ==
    MoveAs(w, i, w.ships[i], NpcIntent(w, w.ships[i], shooters))

\* a phase of the tick, or the AI or the move of ship `ref', has completed
Mark(w, phase, ref) == [w EXCEPT !.phases = Append(@, <<phase, ref>>)]

\* what the AI evaluation of a ship found and the state it left the ship in
Evaluation(w, ship) ==
    [id |-> ship.id, faction |-> ship.faction, hull |-> ship.hull,
     maxHull |-> ship.maxHull, dist |-> Hypot(ship.x, w.playerShip.x),
     state |-> ship.aiState,
     weapons |-> getSystemEffectiveness(ship, "weapons")]

\* Simulation.updateNPCShips: the ship at index i after this.updateNPCAI(ship)
Evaluated(w, i, ship) ==
    Mark([w EXCEPT !.ships[i] = ship, !.npc = Append(@, Evaluation(w, ship))],
         "ai", ship.id)

\* the ship at index i, found as `before', has moved
MovedAt(w, i, before) == Moved(w, w.ships[i], before)

\* Simulation.updateNPCShips: forEach over gameState.ships from index i on
RECURSIVE updateNPCShips(_, _, _)
updateNPCShips(w, i, shooters) ==
    IF i > Len(w.ships) THEN w
    ELSE updateNPCShips(
             Mark(MovedAt(moveNPCShip(Evaluated(w, i, updateNPCAI(w, w.ships[i])),
                                      i, shooters),
                          i, w.ships[i]),
                  "move", w.ships[i].id),
             i + 1, shooters)

\* Simulation.updateProjectiles, the collision scan of one projectile: the
\* candidates of `targets' (ship references, in order, from the k-th on) it
\* damages, which is the first one it collides with, if any
RECURSIVE CollisionScan(_, _, _, _)
CollisionScan(w, proj, targets, k) ==
    IF k > Len(targets) THEN <<>>
    ELSE LET target == ShipAt(w, targets[k])
             dist == Hypot(proj.x, target.x)
         IN IF dist < target.size + proj.size THEN <<targets[k]>>
            ELSE CollisionScan(w, proj, targets, k + 1)

\* a scan that goes on after a collision
Struck_NoBreak(w, proj, targets) ==
    SelectSeq(targets,
              LAMBDA t : Hypot(proj.x, ShipAt(w, t).x) < ShipAt(w, t).size + proj.size)

\* Simulation.updateProjectiles: the ships a projectile damages in a tick
Struck(w, proj, targets) == CollisionScan(w, proj, targets, 1)

\* a collision that reads the weapons as they are now
CollisionDamage_Now(w, proj) ==
    TorpedoDamage * getSystemEffectiveness(w.playerShip, "weapons")

\* Simulation.updateProjectiles: the damage a collision applies
CollisionDamage(w, proj) == proj.damage

\* a projectile that lives one tick longer
Expired_Late(proj) == proj.lifetime < 0

\* Simulation.updateProjectiles: the lifetime check
Expired(proj) == proj.lifetime <= 0

\* damageShip on each of `struck', in order
RECURSIVE DamageEach(_, _, _, _)
DamageEach(w, struck, damage, by) ==
    IF struck = <<>> THEN w
    ELSE DamageEach(
             IF getShip(w, Head(struck)) = Null THEN w
             ELSE damageShip(w, Head(struck), damage, by),
             Tail(struck), damage, by)

\* Simulation.updateProjectiles: the projectile after its move
Advance(proj) ==
    [proj EXCEPT !.x = @ + Cos(proj.heading) * proj.velocity,
                 !.lifetime = @ - 1]

\* Simulation.updateProjectiles: the candidates of the collision scan
TargetsOf(w, proj) ==
    IF proj.sourceId = Player
    THEN [k \in 1..Len(w.ships) |-> w.ships[k].id]
    ELSE <<Player>>

\* Simulation.updateProjectiles: the removal of a projectile that hit or
\* expired
Retire(w, i, proj, hit) ==
    IF hit \/ Expired(proj)
    THEN [w EXCEPT !.projectiles = splice(@, i), !.spliced = Append(@, proj)]
    ELSE w

\* Simulation.updateProjectiles: the loop body from the scan on, the
\* projectile at index i having moved
Collide(w, i, proj, struck) ==
    Retire(DamageEach(w, struck, CollisionDamage(w, proj), proj.id),
           i, proj, struck # <<>>)

StepProjectile(w, i, proj) ==
    Collide([w EXCEPT !.projectiles[i] = proj], i, proj,
            Struck(w, proj, TargetsOf(w, proj)))

\* Simulation.updateProjectiles: the loop body for index i, then i - 1 ... 1
RECURSIVE ProjectilesFrom(_, _)
ProjectilesFrom(w, i) ==
    IF i < 1 THEN w
    ELSE ProjectilesFrom(StepProjectile(w, i, Advance(w.projectiles[i])), i - 1)

\* Simulation.updateProjectiles
updateProjectiles(w) == ProjectilesFrom(w, Len(w.projectiles))

\* Simulation.updatePhaserBeams
updatePhaserBeams(w) ==
    LET aged == [k \in 1..Len(w.phaserBeams) |->
                    [w.phaserBeams[k] EXCEPT !.lifetime = @ - 1]]
    IN [w EXCEPT !.phaserBeams = SelectSeq(aged, LAMBDA b : b.lifetime > 0)]

\* Simulation.updateRepairCooldowns
updateRepairCooldowns(w) ==
    [w EXCEPT !.repairCooldowns =
        [system \in DOMAIN @ |-> IF @[system] > 0 THEN @[system] - 1 ELSE @[system]]]

\* an alert level that is set again whether it changed or not
setAlertLevel_Always(w, level) ==
    addCommsMessage(emit([w EXCEPT !.alertLevel = level], "alertChanged", level, 0),
                    "BRIDGE", level, IF level = "red" THEN "alert" ELSE "info")

\* GameState.setAlertLevel(level)
setAlertLevel(w, level) ==
    IF w.alertLevel # level
    THEN addCommsMessage(emit([w EXCEPT !.alertLevel = level], "alertChanged", level, 0),
                         "BRIDGE", level, IF level = "red" THEN "alert" ELSE "info")
    ELSE w

\* Simulation.checkAlertLevel: the distance to the nearest hostile
NearestHostileDistance(w) ==
    LET dists == {Hypot(w.ships[k].x, w.playerShip.x) :
                     k \in {j \in 1..Len(w.ships) : w.ships[j].faction = "hostile"}}
    IN IF dists = {} THEN Infinity
       ELSE CHOOSE d \in dists : \A e \in dists : d <= e

\* a check that lowers red to yellow once the nearest hostile is at 500
checkAlertLevel_Downgrading(w) ==
    LET nearestHostileDistance == NearestHostileDistance(w) IN
    IF nearestHostileDistance < 500 * Scale
    THEN IF w.alertLevel # "red" THEN setAlertLevel(w, "red") ELSE w
    ELSE IF nearestHostileDistance < 1000 * Scale
    THEN IF w.alertLevel # "yellow" THEN setAlertLevel(w, "yellow") ELSE w
    ELSE IF w.alertLevel # "normal" /\ nearestHostileDistance > 1500 * Scale
    THEN setAlertLevel(w, "normal")
    ELSE w

\* a check that raises the level one step per tick while a hostile is near
checkAlertLevel_Stepwise(w) ==
    LET nearestHostileDistance == NearestHostileDistance(w) IN
    IF nearestHostileDistance < 1000 * Scale
    THEN IF w.alertLevel = "normal" THEN setAlertLevel(w, "yellow")
         ELSE IF w.alertLevel = "yellow" THEN setAlertLevel(w, "red") ELSE w
    ELSE IF w.alertLevel # "normal" /\ nearestHostileDistance > 1500 * Scale
    THEN setAlertLevel(w, "normal")
    ELSE w

\* Simulation.checkAlertLevel
checkAlertLevel(w) ==
    LET nearestHostileDistance == NearestHostileDistance(w) IN
    IF nearestHostileDistance < 500 * Scale
    THEN IF w.alertLevel # "red" THEN setAlertLevel(w, "red") ELSE w
    ELSE IF nearestHostileDistance < 1000 * Scale
    THEN IF w.alertLevel # "yellow" /\ w.alertLevel # "red"
         THEN setAlertLevel(w, "yellow") ELSE w
    ELSE IF w.alertLevel # "normal" /\ nearestHostileDistance > 1500 * Scale
    THEN setAlertLevel(w, "normal")
    ELSE w

\* shields that regenerate past their maximum
RegenerateShip_Unclamped(ship) ==
    IF ship.subsystems["shields"].power > 0 /\ ship.subsystems["shields"].hp > 0
       /\ ship.shieldStrength < ship.maxShieldStrength
    THEN [ship EXCEPT !.shieldStrength =
                          @ + (ship.subsystems["shields"].power
                                   * ship.subsystems["shields"].hp)
                                  \div (100 * Scale)]
    ELSE ship

\* Simulation.regenerateShields, on one ship
RegenerateShip(ship) ==
    LET shields == ship.subsystems["shields"]
        \* 0.1 * (power / 100) * (hp / 100), in thousandths
        gain == (shields.power * shields.hp) \div (100 * Scale)
    IN IF shields.power > 0 /\ shields.hp > 0
          /\ ship.shieldStrength < ship.maxShieldStrength
       THEN [ship EXCEPT !.shieldStrength =
                             Min(@ + gain, ship.maxShieldStrength)]
       ELSE ship

\* Simulation.regenerateShields
regenerateShields(w) ==
    [w EXCEPT !.ships = [k \in 1..Len(@) |-> RegenerateShip(@[k])],
              !.playerShip = RegenerateShip(@),
              !.regen = @ \o [k \in 1..Len(w.ships) |->
                                 <<w.ships[k], RegenerateShip(w.ships[k])>>]
                        \o <<<<w.playerShip, RegenerateShip(w.playerShip)>>>>]

\* the player ship, found as `before', has moved
PlayerMoved(w, before) == Moved(w, w.playerShip, before)

\* a tick that checks the alert level before anything has moved
update_AlertFirst(w, shooters) ==
    LET w0 == Mark([w EXCEPT !.gameTime = @ + 1], "clock", Null)
        w1 == Mark(checkAlertLevel(w0), "alert", Null)
        w2 == Mark(updatePlayerShip(w1), "player", Null)
        w3 == updateNPCShips(w2, 1, shooters)
        w4 == Mark(updateProjectiles(w3), "projectiles", Null)
        w5 == Mark(updatePhaserBeams(w4), "beams", Null)
        w6 == Mark(updateRepairCooldowns(w5), "cooldowns", Null)
    IN Mark(regenerateShields(w6), "shields", Null)

\* Simulation.update: one fixed-timestep tick
update(w, shooters) ==
    LET w0 == Mark([w EXCEPT !.gameTime = @ + 1], "clock", Null)
        w1 == Mark(PlayerMoved(updatePlayerShip(w0), w.playerShip), "player", Null)
        w2 == updateNPCShips(w1, 1, shooters)
        w3 == Mark(updateProjectiles(w2), "projectiles", Null)
        w4 == Mark(updatePhaserBeams(w3), "beams", Null)
        w5 == Mark(updateRepairCooldowns(w4), "cooldowns", Null)
        w6 == Mark(checkAlertLevel(w5), "alert", Null)
    IN Mark(regenerateShields(w6), "shields", Null)

\* ------------------------------------------------------------ the clock
\* a loop that runs every tick that is due
Iterations_Uncapped(ticksNeeded) == ticksNeeded

\* Math.min(ticksNeeded, 5), the iterations of one loop invocation
Iterations(ticksNeeded) == Min(ticksNeeded, MaxCatchUp)

\* Math.floor(elapsed / this.tickLength) at the invocation with `timestamp'
TicksNeeded(w, timestamp) == (timestamp - w.sim.lastTick) \div TickLength

\* requestAnimationFrame((t) => this.loop(t)), kept in animationId
Requested(w) ==
    [w EXCEPT !.uuids.frame = @ + 1,
              !.sim.animationId = w.uuids.frame + 1,
              !.pending = @ \cup {w.uuids.frame + 1}]

\* Simulation.stop()
stop(w) ==
    IF w.sim.animationId # 0
    THEN [w EXCEPT !.sim.running = FALSE, !.sim.animationId = 0,
                   !.pending = @ \ {w.sim.animationId}]
    ELSE [w EXCEPT !.sim.running = FALSE]

\* a collaborator's callback that calls simulation.stop(): in a loop
\* invocation with w.halt = "handler" the first event callback that runs
\* while the clock is running does so, w being the world after the tick in
\* which `invoked' callbacks had run before; stop touches nothing a tick reads
Halted(w, invoked) ==
    IF w.halt = "handler" /\ w.sim.running /\ Len(w.invoked) > invoked
    THEN stop(w) ELSE w

\* one iteration of the loop: the reference moves on, the tick runs unless
\* the game is paused; `late' counts the ticks run with the clock stopped
Iteration(w, shooters) ==
    IF w.isPaused
    THEN [w EXCEPT !.sim.lastTick = @ + TickLength]
    ELSE Halted([update([w EXCEPT !.sim.lastTick = @ + TickLength], shooters)
                    EXCEPT !.ticked = @ + 1,
                           !.late = IF w.sim.running THEN @ ELSE @ + 1],
                Len(w.invoked))

RECURSIVE Iterate(_, _, _)
Iterate(w, n, shooters) ==
    IF n <= 0 THEN w ELSE Iterate(Iteration(w, shooters), n - 1, shooters)

\* if (this.onRender) this.onRender(timestamp)
Rendered(w) ==
    IF w.sim.onRender
    THEN IF w.halt = "render" THEN stop([w EXCEPT !.rendered = @ + 1])
         ELSE [w EXCEPT !.rendered = @ + 1]
    ELSE w

\* Simulation.loop(timestamp)
loop(w, timestamp, shooters) ==
    IF ~w.sim.running THEN w
    ELSE Rendered(Iterate(Requested(w), Iterations(TicksNeeded(w, timestamp)),
                          shooters))

\* Simulation.start(renderCallback)
start(w, renderCallback, shooters) ==
    IF w.sim.running THEN w
    ELSE loop([w EXCEPT !.sim.running = TRUE, !.sim.onRender = renderCallback,
                        !.sim.lastTick = w.now],
              w.now, shooters)

\* the browser runs the frame callback `id' at time `timestamp'
Called(w, id, timestamp) == [w EXCEPT !.pending = @ \ {id}, !.now = timestamp]

\* ------------------------------------------------------- environment
\* What the environment may still do: ships to add (add, of configs),
\* fireWeapon calls per kind (phaser, torpedo, laser: a kind the game does
\* not have), setPower calls (power, on systems, of powers), setTarget calls,
\* repairSubsystem calls (repair, of repairs), idle ticks to run, fire rolls
\* (shots) and subsystem-damage rolls (rolls, picking one of hits) that may
\* succeed, helm orders (helm, throttle, waypoint), setAlertLevel calls (alert), removeShip
\* calls (remove), hailShip calls (hail), the weapons station's torpedo
\* button and update (launch) and presses of the button that launch nothing
\* (misfires), on and off calls (bus, for events of kinds), start and stop calls, animation
\* frames, of which some (halt) may have a callback call stop, and writes
\* of isPaused (pause).
\* With `long' set, a tick is free while a torpedo is in flight or a repair
\* cooldown is running, so that those counters run out; the operator then
\* only watches, and may ask once more for a repair already granted.  With
\* `barrage' set, every fire roll succeeds.
NoBudget ==
    [add |-> 0, configs |-> {}, phaser |-> 0, torpedo |-> 0, power |-> 0,
     systems |-> {}, target |-> 0, repair |-> 0, repairs |-> {}, ticks |-> 0,
     shots |-> 0,
     rolls |-> 0, long |-> FALSE, barrage |-> FALSE, helm |-> 0,
     powers |-> {0, 100}, alert |-> 0, remove |-> 0, bus |-> 0, laser |-> 0,
     start |-> 0, stop |-> 0, frames |-> 0, pause |-> 0, hits |-> Systems,
     throttle |-> 0, waypoint |-> 0, halt |-> 0, hail |-> 0,
     launch |-> 0, misfires |-> 0, kinds |-> {"targetChanged", "alertChanged"}]

Scenarios ==
    { \* a phaser engagement
      [NoBudget EXCEPT !.add = 1, !.configs = {Raider, Cruiser, Picket, Outlier},
                       !.target = 1, !.power = 1, !.systems = {"weapons"},
                       !.phaser = MaxFire, !.rolls = 1, !.ticks = 1],
      \* a torpedo run
      [NoBudget EXCEPT !.add = MaxShips, !.configs = {Raider, Cruiser, Trader},
                       !.torpedo = 1, !.power = 1, !.systems = {"weapons"},
                       !.rolls = 1, !.ticks = MaxTicks],
      \* a torpedo flown to the end of its lifetime
      [NoBudget EXCEPT !.add = 1, !.configs = {Outlier, Escort},
                       !.torpedo = 1, !.ticks = 1, !.long = TRUE],
      \* damage control under fire
      [NoBudget EXCEPT !.add = 1, !.configs = {Gunship},
                       !.repair = MaxRepairs, !.repairs = {"weapons", "engines"},
                       !.shots = 2, !.rolls = 2, !.hits = {"weapons"},
                       !.ticks = MaxTicks, !.long = TRUE],
      \* a crippling attack
      [NoBudget EXCEPT !.add = 1, !.configs = {Dreadnought},
                       !.power = 1, !.systems = {"shields"},
                       !.phaser = 1, !.torpedo = 1, !.hits = {"weapons"},
                       !.shots = MaxTicks, !.rolls = MaxTicks, !.ticks = MaxTicks],
      \* a siege
      [NoBudget EXCEPT !.add = 1, !.configs = {Gunship},
                       !.power = 1, !.systems = {"shields"},
                       !.shots = MaxShots, !.ticks = MaxShots, !.barrage = TRUE],
      \* power allocation
      [NoBudget EXCEPT !.power = MaxPower, !.systems = SystemNames,
                       !.powers = {-10, 70, 150}],
      \* ships removed from the world
      [NoBudget EXCEPT !.add = MaxShips, !.configs = {Picket, Escort},
                       !.target = 1, !.torpedo = 1, !.remove = MaxOrders],
      \* stations subscribed to the events of two commands
      [NoBudget EXCEPT !.bus = MaxSubs, !.target = 1, !.alert = 1],
      \* commands given a name that is no subsystem, no weapon
      [NoBudget EXCEPT !.add = 1, !.configs = {Picket}, !.power = MaxOrders,
                       !.systems = {"weapons", "warp"}, !.powers = {0, 70},
                       !.repair = 1, !.repairs = {"warp"}, !.laser = 1],
      \* the clock, started, paused, resumed and stopped
      [NoBudget EXCEPT !.add = 1, !.configs = {Trader}, !.start = 1, !.stop = 1,
                       !.frames = MaxFrames, !.pause = 2],
      \* alert orders
      [NoBudget EXCEPT !.alert = MaxOrders],
      \* helm orders
      [NoBudget EXCEPT !.helm = MaxOrders],
      \* an encounter with ships of every faction
      [NoBudget EXCEPT !.add = MaxShips,
                       !.configs = {Gunship, Mute, Wreck, Escort, Friend, Picket,
                                    Sentry, Warden},
                       !.torpedo = 1, !.shots = 1, !.ticks = 1],
      \* hostiles that keep their distance
      [NoBudget EXCEPT !.add = MaxShips,
                       !.configs = {Hulk(500 * Scale), Hulk(1000 * Scale), Warden,
                                    Far},
                       !.alert = 1, !.ticks = MaxTicks],
      \* a course to a waypoint
      [NoBudget EXCEPT !.throttle = 1, !.waypoint = 1, !.ticks = MaxTicks],
      \* ships on patrol
      [NoBudget EXCEPT !.add = MaxShips,
                       !.configs = {Trader, Courier, Wreck, Veteran, Bare},
                       !.ticks = MaxTicks],
      \* the weapons station watching its target
      [NoBudget EXCEPT !.add = 1, !.configs = {Picket, Gunship}, !.bus = 1,
                       !.kinds = {"shipDestroyed"},
                       !.target = 1, !.phaser = 1, !.remove = 1],
      \* the clock stopped by a callback inside the loop, and started again
      [NoBudget EXCEPT !.add = 1, !.configs = {Picket}, !.bus = 1,
                       !.kinds = {"alertChanged"}, !.start = 2,
                       !.stop = 1, !.frames = 2, !.halt = 1],
      \* a hostile worn down by the player's phaser
      [NoBudget EXCEPT !.add = 1, !.configs = {Bruised}, !.target = 1,
                       !.phaser = 1, !.shots = 2, !.ticks = MaxTicks],
      \* ships hailed, and removed before they answer
      [NoBudget EXCEPT !.add = MaxShips, !.configs = {Trader, Picket},
                       !.hail = MaxOrders, !.remove = 1],
      \* the magazine of the weapons station fired empty
      [NoBudget EXCEPT !.launch = 1, !.misfires = MaxOrders, !.power = 1,
                       !.systems = {"weapons"}, !.powers = {0}],
      \* under way, the engines then powered down or hit
      [NoBudget EXCEPT !.throttle = 1, !.power = 1, !.systems = {"engines"},
                       !.powers = {0, 20},
                       !.add = 1, !.configs = {Gunship, Cruiser}, !.shots = 1,
                       !.rolls = 1, !.hits = {"engines"}, !.ticks = MaxTicks] }

\* the budget left once the counters are left to run
Watch(b) == [NoBudget EXCEPT !.long = TRUE, !.ticks = b.ticks,
                             !.repair = Min(b.repair, 1),
                             !.repairs = b.repairs \cap DOMAIN repairCooldowns]

NoArgs == [type |-> Null, id |-> Null, system |-> Null, value |-> 0, level |-> Null,
           event |-> Null, callback |-> Null]

\* the state of world w, without what the step recorded on the way
StateOf(w) ==
    [playerShip |-> w.playerShip, ships |-> w.ships, projectiles |-> w.projectiles,
     phaserBeams |-> w.phaserBeams, commsLog |-> w.commsLog,
     currentTarget |-> w.currentTarget, alertLevel |-> w.alertLevel,
     waypoint |-> w.waypoint, gameTime |-> w.gameTime, isPaused |-> w.isPaused,
     repairCooldowns |-> w.repairCooldowns, listeners |-> w.listeners]

\* the steps whose record keeps the whole state they began in
Audited(op, args) ==
    \/ op \in {"setAlertLevel", "removeShip", "start", "loop", "hailShip"}
    \/ args.system \notin Systems \cup {Null}
    \/ args.type \notin {"phaser", "torpedo", Null}

\* what a step found: the part of the state before it that its record is
\* read against
Pre ==
    [beams |-> Len(phaserBeams), projectiles |-> Len(projectiles),
     subsystems |-> playerShip.subsystems, cooldowns |-> repairCooldowns,
     target |-> currentTarget, x |-> playerShip.x,
     heading |-> playerShip.heading, sim |-> sim, now |-> now,
     gameTime |-> gameTime, alert |-> alertLevel,
     waypoint |-> waypoint, velocity |-> playerShip.velocity,
     fresh |-> Len(SelectSeq(phaserBeams, LAMBDA b : b.lifetime = BeamLifetime)),
     worn |-> hist.worn, timeouts |-> timeouts, station |-> station,
     ships |-> [k \in 1..Len(ships) |->
                   [id |-> ships[k].id, x |-> ships[k].x, hull |-> ships[k].hull]]]

\* where the player and the hostiles of world w are
Positions(w) ==
    LET hostiles == SelectSeq(w.ships, LAMBDA s : s.faction = "hostile")
    IN <<w.playerShip.x, [k \in 1..Len(hostiles) |-> <<hostiles[k].id, hostiles[k].x>>]>>

\* what the regeneration phase found of a ship and the shields it left
Shields(pair) ==
    [id |-> pair[1].id, power |-> pair[1].subsystems["shields"].power,
     hp |-> pair[1].subsystems["shields"].hp,
     maxShieldStrength |-> pair[1].maxShieldStrength,
     before |-> pair[1].shieldStrength, after |-> pair[2].shieldStrength]

\* the record of a step
Done(w, op, args) ==
    [op |-> op, args |-> args, ret |-> w.ret, emitted |-> w.emitted,
     invoked |-> w.invoked, threw |-> w.threw,
     ticked |-> w.ticked, rendered |-> w.rendered,
     phases |-> w.phases, npc |-> w.npc, moves |-> w.moves,
     regen |-> [k \in 1..Len(w.regen) |-> Shields(w.regen[k])],
     seen |-> w.seen, late |-> w.late, asked |-> w.asked,
     calls |-> w.calls, removed |-> w.removed, spliced |-> w.spliced,
     pre |-> Pre,
     before |-> IF Audited(op, args) THEN StateOf(World(<<>>)) ELSE <<>>]

\* the events of kind `kind' among `events', as the sequence of their refs
RefsOf(events, kind) ==
    LET picked == SelectSeq(events, LAMBDA e : e.kind = kind)
    IN [k \in 1..Len(picked) |-> picked[k].ref]

ProjIds == {ProjUuid(n) : n \in 1..(MagazineSize + 2)}

\* the damageShip calls among `calls' made for a projectile
HitsOf(calls) ==
    LET picked == SelectSeq(calls, LAMBDA c : c.by \in ProjIds)
    IN [k \in 1..Len(picked) |->
           [proj |-> picked[k].by, target |-> picked[k].target,
            damage |-> picked[k].damage]]

\* the run so far, after a step: the shipDestroyed events, the removeShip
\* calls of damageShip, the projectiles spliced out, the damageShip calls
\* made for projectiles, the torpedoes fired (with the weapons effectiveness
\* they were fired at), the tick of the last repair granted per subsystem,
\* the real time that passed between loop invocations with the game not
\* paused, the ticks the loop executed, the ticks in a row up to now in which
\* neither the player nor a hostile moved (still), the playerDestroyed
\* events emitted (lost), whether setTarget was ever given an id that is
\* neither null nor of a ship then in the world (stray), the hostiles found
\* below 0.3 of their hull after a step (worn)
Record(w, op, args) ==
    [destroyed |-> hist.destroyed \o RefsOf(w.emitted, "shipDestroyed"),
     removed |-> hist.removed \o w.removed,
     spliced |-> hist.spliced \o [k \in 1..Len(w.spliced) |-> w.spliced[k].id],
     hits |-> hist.hits \o HitsOf(w.calls),
     fired |-> IF op = "fireWeapon" /\ Len(w.projectiles) > Len(projectiles)
               THEN Append(hist.fired,
                           [id |-> w.projectiles[Len(w.projectiles)].id,
                            at |-> gameTime,
                            effectiveness |->
                                getSystemEffectiveness(playerShip, "weapons")])
               ELSE hist.fired,
     repairs |-> IF op = "repairSubsystem" /\ w.ret
                 THEN SetKey(hist.repairs, args.system, gameTime)
                 ELSE hist.repairs,
     unpaused |-> IF op = "loop" /\ ~isPaused
                  THEN hist.unpaused + (w.now - now)
                  ELSE hist.unpaused,
     ticked |-> hist.ticked + w.ticked,
     still |-> IF op = "update" /\ Positions(w) = Positions(World(<<>>))
               THEN Min(hist.still + 1, MaxTicks) ELSE 0,
     lost |-> hist.lost + Len(RefsOf(w.emitted, "playerDestroyed")),
     stray |-> hist.stray \/ (op = "setTarget" /\ args.id # Null
                              /\ findIndex(ships, args.id) = 0),
     worn |-> hist.worn \cup {w.ships[k].id : k \in
                  {j \in 1..Len(w.ships) : /\ w.ships[j].faction = "hostile"
                                           /\ 10 * w.ships[j].hull
                                                  < 3 * w.ships[j].maxHull}}]

\* the step installs the world it produced
Install(w) ==
    /\ playerShip' = w.playerShip
    /\ ships' = w.ships
    /\ projectiles' = w.projectiles
    /\ phaserBeams' = w.phaserBeams
    /\ commsLog' = w.commsLog
    /\ currentTarget' = w.currentTarget
    /\ alertLevel' = w.alertLevel
    /\ waypoint' = w.waypoint
    /\ gameTime' = w.gameTime
    /\ isPaused' = w.isPaused
    /\ repairCooldowns' = w.repairCooldowns
    /\ listeners' = w.listeners
    /\ sim' = w.sim
    /\ now' = w.now
    /\ pending' = w.pending
    /\ timeouts' = w.timeouts
    /\ station' = w.station
    /\ uuids' = w.uuids
    /\ steer' = steer

\* the draws offered to a step: none succeeds, or the first one does
Draws ==
    IF budget.rolls > 0 THEN {<<>>} \cup {<<s>> : s \in budget.hits} ELSE {<<>>}

\* the rolls of `draws' a step consumed
Rolled(w, draws) == Len(draws) - Len(w.draws)

\* a torpedo is in flight or a repair cooldown is running
Pending ==
    \/ projectiles # <<>>
    \/ \E s \in DOMAIN repairCooldowns : repairCooldowns[s] > 0

\* the budget a step leaves
Spend(w, op, args, draws) ==
    CASE op = "addShip" -> [budget EXCEPT !.add = @ - 1]
      [] op = "fireWeapon" ->
             [budget EXCEPT ![args.type] = @ - 1, !.rolls = @ - Rolled(w, draws)]
      [] op = "setTarget" -> [budget EXCEPT !.target = @ - 1]
      [] op = "setPower" -> [budget EXCEPT !.power = @ - 1]
      [] op = "repairSubsystem" -> [budget EXCEPT !.repair = @ - 1]
      [] op \in {"setHeading", "turn"} -> [budget EXCEPT !.helm = @ - 1]
      [] op = "setThrottle" -> [budget EXCEPT !.throttle = @ - 1]
      [] op = "setWaypoint" -> [budget EXCEPT !.waypoint = @ - 1]
      [] op = "setAlertLevel" -> [budget EXCEPT !.alert = @ - 1]
      [] op = "removeShip" -> [budget EXCEPT !.remove = @ - 1]
      [] op = "hailShip" -> [budget EXCEPT !.hail = @ - 1]
      [] op = "timeout" -> budget
      [] op = "fireTorpedo" ->
             [budget EXCEPT !.misfires = IF w.asked = 1 /\ w.ret THEN @ ELSE @ - 1]
      [] op = "stationUpdate" -> budget
      [] op \in {"on", "off"} -> [budget EXCEPT !.bus = @ - 1]
      [] op = "start" -> [budget EXCEPT !.start = @ - 1]
      [] op = "stop" -> [budget EXCEPT !.stop = @ - 1]
      [] op = "loop" ->
             [budget EXCEPT !.frames = @ - 1,
                            !.halt = IF args.callback = Null THEN @ ELSE @ - 1]
      [] op = "setPaused" -> [budget EXCEPT !.pause = @ - 1]
      [] op = "update" ->
             IF budget.long /\ Pending THEN Watch(budget)
             ELSE [budget EXCEPT
                      !.ticks = @ - 1,
                      !.shots = @ - Len(SelectSeq(w.calls, LAMBDA c : c.target = Player)),
                      !.rolls = @ - Rolled(w, draws)]

\* a ship that has not turned: angles in thousandths of a degree, the engine
\* effectiveness in thousandths
NoSteer == [heading |-> 0, turnRate |-> 0, engineEffectiveness |-> 0,
            from |-> 0, targetAngle |-> 0, turnSpeed |-> 0, turns |-> 0]

TargetIds == {Null, ShipUuid(1), ShipUuid(MaxShips + 1)}

Init ==
    /\ playerShip = createShip(
           [BaseConfig EXCEPT !.id = Player, !.faction = "friendly",
                              !.turnRate = 0,
                              !.maxVelocity = PlayerMaxVelocity * Scale,
                              !.size = PlayerSize * Scale])
    /\ ships = <<>>
    /\ projectiles = <<>>
    /\ phaserBeams = <<>>
    /\ commsLog = <<>>
    /\ currentTarget = Null
    /\ alertLevel = "normal"
    /\ waypoint = <<>>
    /\ gameTime = 0
    /\ isPaused = FALSE
    /\ repairCooldowns = <<>>
    /\ listeners = <<>>
    /\ sim = [lastTick |-> 0, running |-> FALSE, onRender |-> FALSE,
              animationId |-> 0]
    /\ now = 0
    /\ pending = {}
    /\ timeouts = <<>>
    /\ station = [torpedoCount |-> MagazineSize, torpedoCooldown |-> 0]
    /\ uuids = [ship |-> 0, proj |-> 0, frame |-> 0]
    /\ last = [op |-> "reset", args |-> NoArgs, ret |-> FALSE, emitted |-> <<>>,
                invoked |-> <<>>, threw |-> FALSE, ticked |-> 0, rendered |-> 0,
                phases |-> <<>>, npc |-> <<>>, moves |-> <<>>, regen |-> <<>>,
                seen |-> <<>>, late |-> 0, asked |-> 0, calls |-> <<>>, removed |-> <<>>, spliced |-> <<>>,
                pre |-> [beams |-> 0, projectiles |-> 0,
                         subsystems |-> createSubsystems, cooldowns |-> <<>>,
                         target |-> Null, x |-> 0, heading |-> 0,
                         sim |-> [lastTick |-> 0, running |-> FALSE,
                                  onRender |-> FALSE, animationId |-> 0],
                         now |-> 0, gameTime |-> 0, alert |-> "normal",
                         fresh |-> 0, waypoint |-> <<>>, velocity |-> 0,
                         worn |-> {}, timeouts |-> <<>>,
                         station |-> [torpedoCount |-> MagazineSize,
                                      torpedoCooldown |-> 0],
                         ships |-> <<>>],
                before |-> <<>>]
    /\ hist = [destroyed |-> <<>>, removed |-> <<>>, spliced |-> <<>>,
               hits |-> <<>>, fired |-> <<>>, repairs |-> <<>>, unpaused |-> 0,
               ticked |-> 0, still |-> 0, lost |-> 0, stray |-> FALSE,
               worn |-> {}]
    /\ budget \in Scenarios
    /\ steer = NoSteer

\* a step: the operation `op' has turned the state into world w
Step(w, op, args, draws) ==
    /\ Install(w)
    /\ last' = Done(w, op, args)
    /\ hist' = Record(w, op, args)
    /\ budget' = Spend(w, op, args, draws)

\* gameState.addShip(config), in the scenario setup
AddShip(config) ==
    /\ budget.add > 0
    /\ config \in budget.configs
    /\ gameTime = 0
    /\ Step(addShip(World(<<>>), config), "addShip", NoArgs, <<>>)

\* gameState.fireWeapon(type, targetId)
FireWeapon(type, targetId, draws) ==
    /\ budget[type] > 0
    /\ Step(fireWeapon(World(draws), type, targetId), "fireWeapon",
            [NoArgs EXCEPT !.type = type, !.id = targetId], draws)

\* gameState.setTarget(shipId)
SetTarget(shipId) ==
    /\ budget.target > 0
    /\ Step(setTarget(World(<<>>), shipId), "setTarget",
            [NoArgs EXCEPT !.id = shipId], <<>>)

\* gameState.setPower(systemName, power)
SetPower(systemName, power) ==
    /\ budget.power > 0
    /\ systemName \in budget.systems
    /\ power \in budget.powers
    /\ Step(setPower(World(<<>>), systemName, power), "setPower",
            [NoArgs EXCEPT !.system = systemName, !.value = power], <<>>)

\* gameState.repairSubsystem(systemName)
RepairSubsystem(systemName) ==
    /\ budget.repair > 0
    /\ systemName \in budget.repairs
    /\ Step(repairSubsystem(World(<<>>), systemName), "repairSubsystem",
            [NoArgs EXCEPT !.system = systemName], <<>>)

\* the degrees a helm order is given
Degrees == {-720, -450, -360, -90, 0, 90, 360, 725}

\* HelmStation.setHeading(heading)
SetHeading(heading) ==
    /\ budget.helm > 0
    /\ Step(setHeading(World(<<>>), heading), "setHeading",
            [NoArgs EXCEPT !.value = heading], <<>>)

\* HelmStation.turn(degrees)
Turn(degrees) ==
    /\ budget.helm > 0
    /\ Step(turn(World(<<>>), degrees), "turn",
            [NoArgs EXCEPT !.value = degrees], <<>>)

\* the positions of the throttle slider
Percents == {0, 50, 100}

\* HelmStation.setThrottle(percent)
SetThrottle(percent) ==
    /\ budget.throttle > 0
    /\ Step(setThrottle(World(<<>>), percent), "setThrottle",
            [NoArgs EXCEPT !.value = percent], <<>>)

\* where a waypoint is set: within 20 units of the player, at 20 units
\* after the first tick at full throttle, and far away
Waypoints == {10 * Scale, 22 * Scale, 200 * Scale}

\* gameState.setWaypoint(x, y), from the map of the helm
SetWaypoint(x) ==
    /\ budget.waypoint > 0
    /\ Step(setWaypoint(World(<<>>), x), "setWaypoint",
            [NoArgs EXCEPT !.value = x], <<>>)

\* gameState.setAlertLevel(level), from the alert buttons
SetAlertLevel(level) ==
    /\ budget.alert > 0
    /\ Step(setAlertLevel(World(<<>>), level), "setAlertLevel",
            [NoArgs EXCEPT !.level = level], <<>>)

\* gameState.removeShip(shipId)
RemoveShip(shipId) ==
    /\ budget.remove > 0
    /\ Step(removeShip(World(<<>>), shipId), "removeShip",
            [NoArgs EXCEPT !.id = shipId], <<>>)

\* gameState.hailShip(shipId)
HailShip(shipId) ==
    /\ budget.hail > 0
    /\ Step(hailShip(World(<<>>), shipId), "hailShip",
            [NoArgs EXCEPT !.id = shipId], <<>>)

\* the browser runs the oldest setTimeout callback, its delay elapsed
Timeout ==
    /\ timeouts # <<>>
    /\ Step(Respond(World(<<>>), Head(timeouts)), "timeout",
            [NoArgs EXCEPT !.id = Head(timeouts).id], <<>>)

\* the torpedo button of the weapons station: WeaponsStation.fireTorpedo()
FireTorpedo ==
    /\ budget.launch > 0
    /\ budget.misfires > 0
           \/ /\ station.torpedoCooldown = 0 /\ station.torpedoCount > 0
              /\ ~WeaponsOffline(playerShip.subsystems["weapons"])
    /\ Step(fireTorpedo(World(<<>>)), "fireTorpedo", NoArgs, <<>>)

\* a frame of the station display: WeaponsStation.update(timestamp)
StationUpdate ==
    /\ budget.launch > 0
    /\ Step(stationUpdate(World(<<>>)), "stationUpdate", NoArgs, <<>>)

\* the event kinds and the callbacks the stations subscribe
EventKinds == {"targetChanged", "alertChanged", "shipDestroyed"}
Callbacks == {"h1", "h2"}

\* gameState.on(event, callback)
On(event, callback) ==
    /\ budget.bus > 0
    /\ event \in budget.kinds
    /\ Step(on(World(<<>>), event, callback), "on",
            [NoArgs EXCEPT !.event = event, !.callback = callback], <<>>)

\* gameState.off(event, callback)
Off(event, callback) ==
    /\ budget.bus > 0
    /\ event \in budget.kinds
    /\ Step(off(World(<<>>), event, callback), "off",
            [NoArgs EXCEPT !.event = event, !.callback = callback], <<>>)

\* the real time between two animation frames, in milliseconds: less than a
\* tick, one tick, a stall of six ticks
Gaps == {20, TickLength, (MaxCatchUp + 1) * TickLength}

\* where the stop() of a collaborator's callback is called from
Halts == {Null, "handler", "render"}

\* simulation.start(renderCallback)
Start(renderCallback) ==
    /\ budget.start > 0
    /\ Step(start(World(<<>>), renderCallback, {}), "start", NoArgs, <<>>)

\* simulation.stop()
Stop ==
    /\ budget.stop > 0
    /\ Step(stop(World(<<>>)), "stop", NoArgs, <<>>)

\* the browser runs a requested animation frame: Simulation.loop(timestamp)
\* in it a callback of a collaborator may call simulation.stop() (halt)
Frame(id, gap, shooters, halt) ==
    /\ budget.frames > 0
    /\ id \in pending
    /\ Cardinality(shooters) <= budget.shots
    /\ halt # Null => budget.halt > 0
    /\ Step(loop([Called(World(<<>>), id, now + gap) EXCEPT !.halt = halt],
                 now + gap, shooters),
            "loop", [NoArgs EXCEPT !.value = now + gap, !.callback = halt], <<>>)

\* gameState.isPaused written by a collaborator
SetPaused(flag) ==
    /\ budget.pause > 0
    /\ flag # isPaused
    /\ Step([World(<<>>) EXCEPT !.isPaused = flag], "setPaused", NoArgs, <<>>)

\* Simulation.update(), one executed tick
Tick(shooters, draws) ==
    /\ Cardinality(shooters) <= budget.shots
    /\ budget.barrage => shooters = {ships[k].id : k \in 1..Len(ships)}
    /\ (budget.long /\ Pending) \/ budget.ticks > 0
    /\ Step(update(World(draws), shooters), "update", NoArgs, draws)

Next ==
    \/ \E config \in ShipConfigs : AddShip(config)
    \/ \E type \in {"phaser", "torpedo", "laser"}, targetId \in TargetIds,
          draws \in Draws :
           FireWeapon(type, targetId, draws)
    \/ \E shipId \in TargetIds : SetTarget(shipId)
    \/ \E systemName \in SystemNames, power \in {-10, 0, 20, 70, 100, 150} :
           SetPower(systemName, power)
    \/ \E systemName \in SystemNames : RepairSubsystem(systemName)
    \/ \E shipId \in TargetIds : RemoveShip(shipId)
    \/ \E shipId \in TargetIds : HailShip(shipId)
    \/ Timeout
    \/ FireTorpedo
    \/ StationUpdate
    \/ \E event \in EventKinds, callback \in Callbacks : On(event, callback)
    \/ \E event \in EventKinds, callback \in Callbacks : Off(event, callback)
    \/ \E renderCallback \in BOOLEAN : Start(renderCallback)
    \/ Stop
    \/ \E id \in pending, gap \in Gaps,
          shooters \in SUBSET {ships[k].id : k \in 1..Len(ships)} :
           \E halt \in Halts : Frame(id, gap, shooters, halt)
    \/ \E flag \in BOOLEAN : SetPaused(flag)
    \/ \E heading \in Degrees : SetHeading(heading)
    \/ \E level \in {"normal", "yellow", "red"} : SetAlertLevel(level)
    \/ \E degrees \in Degrees : Turn(degrees)
    \/ \E percent \in Percents : SetThrottle(percent)
    \/ \E x \in Waypoints : SetWaypoint(x)
    \/ \E shooters \in SUBSET {ships[k].id : k \in 1..Len(ships)}, draws \in Draws :
           Tick(shooters, draws)

Spec == Init /\ [][Next]_vars

\* every heading a tick works on is on the axis
OnAxis ==
    /\ (gameTime > 0 \/ ships # <<>>) => playerShip.heading \in {0, 180}
    /\ \A k \in 1..Len(ships) : ships[k].heading \in {0, 180}
    /\ \A k \in 1..Len(projectiles) : projectiles[k].heading \in {0, 180}

\* --------------------------------------------------------- properties
\* the damageShip calls of the last step
Calls == {last.calls[k] : k \in 1..Len(last.calls)}

Range(seq) == {seq[k] : k \in 1..Len(seq)}

Count(seq, x) == Len(SelectSeq(seq, LAMBDA e : e = x))

\* the player's weapons were offline when the last step began
WasOffline ==
    \/ last.pre.subsystems["weapons"].hp <= 0
    \/ last.pre.subsystems["weapons"].power <= 0

\* the effectiveness of the player's weapons when the last step began
WasEffectiveness ==
    getSystemEffectiveness([subsystems |-> last.pre.subsystems], "weapons")

\* the last step fired no weapon: no beam, no projectile, no damage, no event
NothingFired ==
    /\ last.ret = FALSE
    /\ Len(phaserBeams) = last.pre.beams
    /\ Len(projectiles) = last.pre.projectiles
    /\ last.calls = <<>>
    /\ \A k \in 1..Len(last.emitted) : last.emitted[k].kind # "weaponFired"

\* C1: whatever damageShip calls and regeneration ticks have run, the hull and
\* the shield strength of every ship, and of every ship a damageShip call has
\* just returned from, are at least 0, overkill damage included.
C1_NeverNegative ==
    /\ playerShip.hull >= 0 /\ playerShip.shieldStrength >= 0
    /\ \A k \in 1..Len(ships) : ships[k].hull >= 0 /\ ships[k].shieldStrength >= 0
    /\ \A c \in Calls : c.hullAfter >= 0 /\ c.shieldAfter >= 0

\* after a tick has run, a hit of more damage than shields and hull together
C1_Overkill ==
    /\ gameTime > 0
    /\ \E c \in Calls : c.damage > c.shieldBefore + c.hullBefore /\ c.hullAfter = 0

\* C2: a damageShip call of raw damage takes from the shields the smaller of
\* their strength and raw * (shields power / 100) * 0.8, and from the hull
\* the rest of raw, the hull being floored at 0.
C2_DamageSplit ==
    \A c \in Calls :
        LET absorption == Min(c.shieldBefore,
                              (c.damage * c.shieldPower * 8) \div Scale)
            hullDamage == c.damage - absorption
        IN /\ c.damage >= 0
           /\ c.shieldAfter = c.shieldBefore - absorption
           /\ c.hullAfter = Max(0, c.hullBefore - hullDamage)

\* a hit the shields could only absorb in part, on a ship that survives it
C2_ShieldsExhausted ==
    \E c \in Calls :
        /\ c.shieldBefore > 0 /\ c.shieldAfter = 0
        /\ c.shieldBefore < (c.damage * c.shieldPower * 8) \div Scale
        /\ 0 < c.hullAfter /\ c.hullAfter < c.hullBefore

\* C3: a damageShip call that leaves an NPC's hull at 0 has removed it from
\* ships by its return; a ship so removed is never in ships again, and
\* shipDestroyed has been emitted for it exactly once.
C3_DestroyedOnce ==
    /\ \A c \in Calls :
           (c.target # Player /\ c.hullAfter <= 0) =>
               ~c.present /\ c.target \in Range(hist.removed)
    /\ \A id \in Range(hist.removed) :
           /\ \A k \in 1..Len(ships) : ships[k].id # id
           /\ Count(hist.destroyed, id) = 1

\* a tick run after a ship was destroyed
C3_AfterDestruction ==
    /\ hist.removed # <<>>
    /\ last.op = "update"
    /\ last.calls = <<>>

\* C4: the player ship is never removed: getShip('player') returns it, no
\* damageShip call has passed it to removeShip, and no shipDestroyed was
\* emitted for it, also once its hull is 0.
C4_PlayerStays ==
    /\ getShip(World(<<>>), Player) = Player
    /\ playerShip.id = Player
    /\ Player \notin Range(hist.removed)
    /\ Player \notin Range(hist.destroyed)
    /\ \A c \in Calls : c.target = Player => c.present

\* a hit that has brought the player's hull to 0
C4_HullBreach ==
    /\ playerShip.hull = 0
    /\ \E c \in Calls : c.target = Player /\ c.hullBefore > 0 /\ c.hullAfter = 0

\* C5: a torpedo fired is in projectiles or has been removed from it, once;
\* it is removed in a tick in which it hit a ship or in the tick that is
\* TorpedoLifetime executed ticks after it was fired, and is in flight no
\* longer than that.
C5_RemovedOnce ==
    \A k \in 1..Len(hist.fired) :
        LET id == hist.fired[k].id
            age == gameTime - hist.fired[k].at
            flying == Len(SelectSeq(projectiles, LAMBDA p : p.id = id))
        IN /\ flying + Count(hist.spliced, id) = 1
           /\ flying = 1 => age < TorpedoLifetime
           /\ \A j \in 1..Len(last.spliced) :
                  last.spliced[j].id = id =>
                      \/ \E c \in Calls : c.by = id
                      \/ age = TorpedoLifetime /\ last.spliced[j].lifetime = 0

\* a torpedo removed at the end of its lifetime, having hit nothing
C5_Expiry ==
    \E j \in 1..Len(last.spliced) :
        /\ last.spliced[j].lifetime = 0
        /\ \A c \in Calls : c.by # last.spliced[j].id

\* C6: over the whole run a projectile is the cause of at most one
\* damageShip call.
C6_OneHit ==
    \A id \in ProjIds : Len(SelectSeq(hist.hits, LAMBDA h : h.proj = id)) <= 1

\* a torpedo that hit one ship within reach of a second one
C6_TwoCandidates ==
    \E j \in 1..Len(last.spliced), c \in Calls, k \in 1..Len(ships) :
        /\ c.by = last.spliced[j].id
        /\ ships[k].id # c.target
        /\ Hypot(last.spliced[j].x, ships[k].x) < ships[k].size + last.spliced[j].size

\* C7: a fireWeapon call made with the player's weapons at hp <= 0 or at
\* power <= 0 returns false, adds no beam and no projectile, damages no ship
\* and emits no weaponFired.
C7_WeaponsOffline ==
    (last.op = "fireWeapon" /\ WasOffline) => NothingFired

\* a phaser shot at a ship within range, with the weapons at power 0
C7_OfflineShot ==
    /\ last.op = "fireWeapon" /\ last.args.type = "phaser"
    /\ last.pre.subsystems["weapons"].power = 0
    /\ \E k \in 1..Len(last.pre.ships) :
           /\ last.pre.ships[k].id = last.args.id
           /\ Hypot(last.pre.x, last.pre.ships[k].x) <= PhaserRange * Scale

\* C8: with the weapons online, a phaser shot fires exactly when its target,
\* the id given or else the locked one, is a ship of the world at a distance
\* of at most PhaserRange; a shot that fires adds one beam, damages the
\* target and emits weaponFired, and one that does not returns false and
\* does none of that.
C8_PhaserTarget ==
    (last.op = "fireWeapon" /\ last.args.type = "phaser" /\ ~WasOffline) =>
        LET id == OrStr(last.args.id, last.pre.target)
            inRange ==
                \/ id = Player
                \/ \E k \in 1..Len(last.pre.ships) :
                       /\ last.pre.ships[k].id = id
                       /\ Hypot(last.pre.x, last.pre.ships[k].x) <= PhaserRange * Scale
        IN IF inRange
           THEN /\ last.ret = TRUE
                /\ Len(phaserBeams) = last.pre.beams + 1
                /\ Len(last.calls) = 1 /\ last.calls[1].target = id
                /\ \E k \in 1..Len(last.emitted) : last.emitted[k].kind = "weaponFired"
           ELSE NothingFired

\* a phaser shot at a ship of the world farther away than PhaserRange
C8_OutOfRange ==
    /\ last.op = "fireWeapon" /\ last.args.type = "phaser" /\ ~WasOffline
    /\ last.ret = FALSE
    /\ \E k \in 1..Len(last.pre.ships) :
           /\ last.pre.ships[k].id = OrStr(last.args.id, last.pre.target)
           /\ Hypot(last.pre.x, last.pre.ships[k].x) > PhaserRange * Scale

\* C9: a torpedo shot that fires adds one projectile, whose damage is
\* TorpedoDamage times the weapons effectiveness of that moment, and damages
\* no ship; the damage a torpedo does when it hits is the damage it was
\* fired with.
C9_StoredDamage ==
    /\ (last.op = "fireWeapon" /\ last.args.type = "torpedo" /\ last.ret) =>
           /\ Len(projectiles) = last.pre.projectiles + 1
           /\ projectiles[Len(projectiles)].damage = TorpedoDamage * WasEffectiveness
           /\ Len(phaserBeams) = last.pre.beams
           /\ last.calls = <<>>
    /\ \A k \in 1..Len(hist.hits) :
           \E j \in 1..Len(hist.fired) :
               /\ hist.fired[j].id = hist.hits[k].proj
               /\ hist.hits[k].damage = TorpedoDamage * hist.fired[j].effectiveness

\* a torpedo that hits after the weapons effectiveness has changed
C9_PowerChanged ==
    \E c \in Calls, j \in 1..Len(hist.fired) :
        /\ c.by = hist.fired[j].id
        /\ c.damage > 0
        /\ hist.fired[j].effectiveness # WasEffectiveness

\* C10: repairSubsystem(s) of a subsystem s is granted exactly when no
\* cooldown of s is running and s is below its maximum hp; granted, it
\* restores RepairAmount hp up to the maximum and starts a cooldown of
\* RepairCooldown; refused, it changes neither hp nor cooldowns; and the
\* cooldown of a granted repair is above 0 until RepairCooldown executed
\* ticks have run.
C10_RepairCooldown ==
    /\ (last.op = "repairSubsystem" /\ last.args.system \in Systems) =>
           LET s == last.args.system
               before == last.pre.subsystems[s]
               granted == /\ ~(s \in DOMAIN last.pre.cooldowns /\ last.pre.cooldowns[s] > 0)
                          /\ before.hp < before.maxHp
           IN /\ last.ret = granted
              /\ playerShip.subsystems[s].hp =
                     IF granted THEN Min(before.maxHp, before.hp + RepairAmount * Scale)
                     ELSE before.hp
              /\ granted => repairCooldowns[s] = RepairCooldown
              /\ ~granted => repairCooldowns = last.pre.cooldowns
    /\ \A s \in DOMAIN hist.repairs :
           repairCooldowns[s] = Max(0, RepairCooldown - (gameTime - hist.repairs[s]))

\* a repair refused for its cooldown alone
C10_Refused ==
    /\ last.op = "repairSubsystem" /\ last.ret = FALSE
    /\ last.args.system \in DOMAIN last.pre.cooldowns
    /\ last.pre.cooldowns[last.args.system] > 0
    /\ last.pre.subsystems[last.args.system].hp
           < last.pre.subsystems[last.args.system].maxHp

\* C11: after turn(delta) or setHeading(h) on the player ship, whatever whole
\* number of degrees was given (negative, a multiple of 360), the player's
\* heading is at least 0 and less than 360.
C11_HeadingRange ==
    last.op \in {"setHeading", "turn"} =>
        /\ playerShip.heading >= 0
        /\ playerShip.heading < 360

\* a turn by a negative number of degrees from a heading smaller than it
C11_NegativeTurn ==
    /\ last.op = "turn"
    /\ last.args.value < 0
    /\ last.pre.heading + last.args.value < 0
    /\ playerShip.heading > 0

\* the power allocated to the player's four subsystems, in total
TotalPower ==
    playerShip.subsystems["engines"].power + playerShip.subsystems["weapons"].power
        + playerShip.subsystems["shields"].power
        + playerShip.subsystems["sensors"].power

\* C12: setPower(system, value) on a known subsystem stores the value clamped
\* into [0,100] and emits powerChanged with the clamped value, whatever the
\* other three are allocated; every subsystem power stays in [0,100].
C12_PowerClamped ==
    /\ \A s \in Systems : playerShip.subsystems[s].power \in 0..100
    /\ (last.op = "setPower" /\ last.args.system \in Systems) =>
           LET clamped == IF last.args.value < 0 THEN 0
                          ELSE IF last.args.value > 100 THEN 100
                          ELSE last.args.value
           IN /\ playerShip.subsystems[last.args.system].power = clamped
              /\ last.emitted = <<Event("powerChanged", last.args.system, clamped)>>
              /\ \A s \in Systems \ {last.args.system} :
                     playerShip.subsystems[s].power = last.pre.subsystems[s].power

\* an allocation above 100 that brings the total to 400
C12_FullPower ==
    /\ last.op = "setPower"
    /\ last.args.value > 100
    /\ TotalPower = 400

\* the state now
State == StateOf(World(<<>>))

\* C13: setAlertLevel(level) with the current level changes no state, emits
\* no event and adds no log entry; with a different level it sets the alert
\* level and emits alertChanged exactly once.
C13_AlertIdempotent ==
    last.op = "setAlertLevel" =>
        IF last.args.level = last.before.alertLevel
        THEN /\ State = last.before
             /\ last.emitted = <<>>
        ELSE /\ alertLevel = last.args.level
             /\ RefsOf(last.emitted, "alertChanged") = <<last.args.level>>

\* the level set a second time
C13_SameLevel ==
    /\ last.op = "setAlertLevel"
    /\ last.args.level = last.before.alertLevel
    /\ last.args.level # "normal"

\* the ids of the ships of a state
IdsOf(state) == {state.ships[k].id : k \in 1..Len(state.ships)}

\* C14: removeShip(id) with no ship of that id in the world (never added, or
\* removed before) changes no state and emits no event; with the ship in the
\* world it takes it out and emits shipDestroyed once.
C14_RemoveIdempotent ==
    last.op = "removeShip" =>
        IF last.args.id \in IdsOf(last.before)
        THEN /\ IdsOf(State) = IdsOf(last.before) \ {last.args.id}
             /\ last.emitted = <<Event("shipDestroyed", last.args.id, 0)>>
        ELSE /\ State = last.before
             /\ last.emitted = <<>>

\* the removal of a ship that was removed before
C14_SecondRemoval ==
    /\ last.op = "removeShip"
    /\ last.args.id \in Range(hist.destroyed)
    /\ last.args.id \notin IdsOf(last.before)
    /\ ships # <<>>

\* C15: after removeShip(id) nothing in the world still refers to id as its
\* target: not currentTarget, not the target of a ship, not the targetId of
\* a projectile in flight.
C15_NoTargetLeft ==
    \A id \in Range(RefsOf(last.emitted, "shipDestroyed")) :
        /\ currentTarget # id
        /\ \A k \in 1..Len(ships) : ships[k].target # id
        /\ \A k \in 1..Len(projectiles) : projectiles[k].targetId # id

\* the callbacks invoked in the last step for its at-th event, in order
InvokedFor(at) ==
    LET picked == SelectSeq(last.invoked, LAMBDA c : c.at = at)
    IN [k \in 1..Len(picked) |-> picked[k].handler]

\* the callbacks subscribed to `kind', in subscription order
Subscribed(kind) == IF kind \in DOMAIN listeners THEN listeners[kind] ELSE <<>>

\* C16: every emit of a step invoked the callbacks subscribed to its kind,
\* once per subscription and in subscription order, before the next thing the
\* step did; no callback of another kind ran and none was left for later.
C16_SynchronousDelivery ==
    /\ \A at \in 1..Len(last.emitted) :
           InvokedFor(at) = Subscribed(last.emitted[at].kind)
    /\ \A k \in 1..Len(last.invoked) :
           /\ last.invoked[k].at \in 1..Len(last.emitted)
           /\ last.invoked[k].kind = last.emitted[last.invoked[k].at].kind
           /\ k > 1 => last.invoked[k - 1].at <= last.invoked[k].at

\* an event delivered to two different callbacks, the second one subscribed
\* first, while another kind has a subscriber of its own
C16_TwoSubscribers ==
    /\ last.emitted # <<>>
    /\ InvokedFor(1) = <<"h2", "h1">>
    /\ \E kind \in DOMAIN listeners :
           kind # last.emitted[1].kind /\ listeners[kind] # <<>>

\* the last step was a command given a subsystem name or a weapon kind the
\* game does not have
UnknownName ==
    \/ last.op \in {"setPower", "repairSubsystem"} /\ last.args.system \notin Systems
    \/ last.op = "fireWeapon" /\ last.args.type \notin {"phaser", "torpedo"}

\* C17: setPower, repairSubsystem and fireWeapon given an unknown subsystem
\* name or weapon kind do nothing: they return failure or nothing, leave the
\* state as it was, emit nothing and do not throw.
C17_UnknownNoOp ==
    UnknownName =>
        /\ ~last.threw
        /\ last.ret = FALSE
        /\ State = last.before
        /\ last.emitted = <<>>

\* the last step was an invocation of the clock loop while running
LoopInvoked ==
    \/ last.op = "loop"
    \/ last.op = "start" /\ ~last.pre.sim.running

\* the ticks that were due when the last loop invocation began
WereDue == (now - last.pre.sim.lastTick) \div TickLength

C19_BacklogDiscarded ==
    LoopInvoked => now - sim.lastTick < TickLength

\* C20: while the game is paused a loop invocation executes no tick and
\* leaves the game state as it was while lastTick moves on; once resumed, the
\* time spent paused is not made up for: the ticks executed never amount to
\* a tick more than the real time that passed with the game not paused.
C20_PausedTimeSkipped ==
    /\ (last.op = "loop" /\ last.before.isPaused) =>
           /\ last.ticked = 0
           /\ State = last.before
           /\ WereDue > 0 => sim.lastTick > last.pre.sim.lastTick
    /\ hist.ticked * TickLength < hist.unpaused + TickLength

\* the AI and the move of each ship of `shipSeq', in order
RECURSIVE NpcPhases(_)
NpcPhases(shipSeq) ==
    IF shipSeq = <<>> THEN <<>>
    ELSE <<<<"ai", Head(shipSeq).id>>, <<"move", Head(shipSeq).id>>>>
             \o NpcPhases(Tail(shipSeq))

\* the beams a ship fired at the player in the last step
BeamsFired == Len(SelectSeq(last.calls, LAMBDA c : c.target = Player /\ c.by # "phaser"
                                                     /\ c.by \notin ProjIds))

\* C21: an executed tick performs its phases once each and in this order:
\* game clock, player movement, for each ship in array order its AI and then
\* its move, projectiles, beam decay, repair cooldowns, alert check, shield
\* regeneration.  A beam a ship fired in the tick has aged by one at its end.
C21_PhaseOrder ==
    last.op = "update" =>
        /\ last.phases =
               <<<<"clock", Null>>, <<"player", Null>>>>
                   \o NpcPhases(last.pre.ships)
                   \o <<<<"projectiles", Null>>, <<"beams", Null>>,
                        <<"cooldowns", Null>>, <<"alert", Null>>,
                        <<"shields", Null>>>>
        /\ gameTime = last.pre.gameTime + 1
        /\ \A k \in 1..BeamsFired :
               phaserBeams[Len(phaserBeams) + 1 - k].lifetime = BeamLifetime - 1

\* a tick with two ships, a torpedo in flight and a ship firing
C21_BusyTick ==
    /\ last.op = "update"
    /\ Len(last.pre.ships) = 2
    /\ last.pre.projectiles > 0
    /\ BeamsFired > 0

\* the AI evaluations of the last step
Evaluations == {last.npc[k] : k \in 1..Len(last.npc)}

\* hull / maxHull < 0.3 at an evaluation
BadlyDamaged(e) == 10 * e.hull < 3 * e.maxHull

\* C22 as claimed: every ship whose hull is below 0.3 of its maximum when its
\* AI is evaluated is in state flee after the evaluation.
C22_AlwaysFlee ==
    \A e \in Evaluations : BadlyDamaged(e) => e.state = "flee"

\* C22, amended: every hostile ship whose hull is below 0.3 of its maximum
\* when its AI is evaluated is in state flee after the evaluation, whatever
\* its distance to the player.
C22_HostileFlee ==
    \A e \in Evaluations :
        (e.faction = "hostile" /\ BadlyDamaged(e)) => e.state = "flee"

\* a badly damaged hostile evaluated within attack range
C22_DamagedInRange ==
    \E e \in Evaluations :
        /\ e.faction = "hostile" /\ BadlyDamaged(e)
        /\ e.dist < 800 * Scale /\ e.state = "flee"

\* the state the faction decision table gives
DecisionTable(faction, damaged, d) ==
    CASE faction = "friendly" -> IF d > 500 * Scale THEN "approach" ELSE "patrol"
      [] faction = "neutral" -> "patrol"
      [] faction = "hostile" /\ damaged -> "flee"
      [] faction = "hostile" /\ ~damaged /\ d < 800 * Scale -> "attack"
      [] faction = "hostile" /\ ~damaged /\ d >= 800 * Scale
             /\ d < 1500 * Scale -> "approach"
      [] faction = "hostile" /\ ~damaged /\ d >= 1500 * Scale -> "patrol"

\* C28: after each AI evaluation the state of the ship is what the faction
\* decision table gives for its faction, its hull ratio and its distance to
\* the player, whatever its state was before.
C28_DecisionTable ==
    \A e \in Evaluations :
        e.state = DecisionTable(e.faction, BadlyDamaged(e), e.dist)

\* a tick that evaluated a friendly at 500 and a hostile at 800
C28_AtLimit ==
    /\ \E e \in Evaluations :
           e.faction = "friendly" /\ e.dist = 500 * Scale /\ e.state = "patrol"
    /\ \E e \in Evaluations :
           e.faction = "hostile" /\ e.dist = 800 * Scale /\ e.state = "approach"

\* the distances from the player to the hostiles
HostileDistances ==
    {Abs(ships[k].x - playerShip.x) :
        k \in {j \in 1..Len(ships) : ships[j].faction = "hostile"}}

\* C23: the alert check of a tick, with d the least distance from the player
\* to a hostile (infinite when there is none), sets red only when d < 500,
\* sets yellow only when d < 1000 and the level is not red, leaves the level
\* as it is for 1000 <= d <= 1500 and sets normal only when d > 1500.
C23_AlertCheck ==
    last.op = "update" =>
        /\ (alertLevel = "red" /\ last.pre.alert # "red") =>
               \E d \in HostileDistances : d < 500 * Scale
        /\ (alertLevel = "yellow" /\ last.pre.alert # "yellow") =>
               /\ \E d \in HostileDistances : d < 1000 * Scale
               /\ last.pre.alert # "red"
        /\ (alertLevel = "normal" /\ last.pre.alert # "normal") =>
               \A d \in HostileDistances : d > 1500 * Scale
        /\ ( /\ \A d \in HostileDistances : d >= 1000 * Scale
             /\ \E d \in HostileDistances : d <= 1500 * Scale ) =>
               alertLevel = last.pre.alert

\* a tick at red alert with the nearest hostile at 500 leaves red alert on
C23_RedKept ==
    /\ last.op = "update"
    /\ last.pre.alert = "red" /\ alertLevel = "red"
    /\ 500 * Scale \in HostileDistances
    /\ \A d \in HostileDistances : d >= 500 * Scale

\* C24: from the second of consecutive ticks in which neither the player nor
\* a hostile moves, with no command in between, the alert level stays as it
\* is and alertChanged is not emitted, also with a hostile sitting at exactly
\* 500, 1000 or 1500.
C24_NoOscillation ==
    (last.op = "update" /\ hist.still >= 2) =>
        /\ alertLevel = last.pre.alert
        /\ RefsOf(last.emitted, "alertChanged") = <<>>

\* the second tick with a hostile sitting at 500: yellow since the first
C24_SittingAtLimit ==
    /\ last.op = "update" /\ hist.still >= 2
    /\ HostileDistances = {500 * Scale}
    /\ alertLevel = "yellow"

\* the ships of the world, the player's among them
AllShips == {playerShip} \cup {ships[k] : k \in 1..Len(ships)}

\* C25: in every state every ship, the player's and the others, has
\* 0 <= velocity <= maxVelocity * engineEffectiveness, with the engine
\* effectiveness (engines hp / 100) * (engines power / 100) of that state.
C25_VelocityBound ==
    \A ship \in AllShips :
        /\ 0 <= ship.velocity
        /\ ship.velocity * Scale
               <= ship.maxVelocity * getSystemEffectiveness(ship, "engines")

\* the moves the ships made in the last step
Moves == {last.moves[k] : k \in 1..Len(last.moves)}

\* C25, amended: in every state every ship has velocity >= 0, and the
\* distance a ship covers in a tick is at most maxVelocity times the engine
\* effectiveness it has when it moves, also after setPower or subsystem
\* damage has lowered the engine effectiveness following a throttle command.
C25_EffectiveVelocity ==
    /\ \A ship \in AllShips : 0 <= ship.velocity
    /\ \A m \in Moves : m.step * Scale <= m.maxVelocity * m.engines

\* the player under way in a tick, the velocity set at the helm above
\* what the engines now give
C25_EnginesLowered ==
    /\ last.op = "update"
    /\ \E m \in Moves : m.id = Player /\ m.step > 0
    /\ playerShip.velocity * Scale
           > playerShip.maxVelocity * getSystemEffectiveness(playerShip, "engines")
    /\ \E m \in Moves : m.id # Player /\ m.step > 0

\* C26: the playerDestroyed event is terminal: it is emitted when the hull of
\* the player's ship reaches 0 and never again, whatever hits the player
\* afterwards.
C26_DestroyedOnce == hist.lost <= 1

\* the damageShip calls of the last step on the player's ship that no
\* torpedo made
HitsByShips ==
    SelectSeq(last.calls, LAMBDA c : c.target = Player /\ c.by \notin ProjIds)

\* the beams of the last tick: a beam made in a tick has aged by one
NewBeams ==
    Len(SelectSeq(phaserBeams, LAMBDA b : b.lifetime = BeamLifetime - 1))
        - last.pre.fresh

\* C29: a ship damages the player only in state attack, at a distance below
\* 400 and with weapons effectiveness above 0; a tick makes one beam for each
\* such hit and no other, so that ships in patrol, approach or flee, and
\* friendly or neutral ships, make no beam and no damageShip call.
C29_FireDiscipline ==
    last.op = "update" =>
        /\ \A k \in 1..Len(HitsByShips) :
               \E e \in Evaluations :
                   /\ e.id = HitsByShips[k].by
                   /\ e.state = "attack"
                   /\ e.dist < 400 * Scale
                   /\ e.weapons > 0
        /\ NewBeams = Len(HitsByShips)

\* a tick in which an attacker hit the player next to a ship that did not fire
C29_OneFires ==
    /\ last.op = "update"
    /\ Len(HitsByShips) = 1
    /\ \E e \in Evaluations :
           e.id # HitsByShips[1].by /\ e.dist < 400 * Scale

\* the moves of the last step that ships on patrol made
Patrols == {m \in Moves : m.id # Player /\ m.state = "patrol"}

\* C31: the patrolIndex of a ship on patrol with a route stays within
\* 0..length-1 and moves on by one, to 0 after the last point, exactly in
\* the ticks that find the ship within 30 units of its current point; a ship
\* on patrol without a route has velocity 0 and keeps position and heading.
C31_Patrol ==
    \A m \in Patrols :
        IF Len(m.patrolPoints) > 0
        THEN /\ m.patrolIndex[2] \in 0..(Len(m.patrolPoints) - 1)
             /\ m.patrolIndex[2] =
                    IF Abs(m.patrolPoints[m.patrolIndex[1] + 1] - m.x) < 30 * Scale
                    THEN IF m.patrolIndex[1] = Len(m.patrolPoints) - 1
                         THEN 0 ELSE m.patrolIndex[1] + 1
                    ELSE m.patrolIndex[1]
        ELSE /\ m.velocity = 0 /\ m.step = 0
             /\ m.heading[2] = m.heading[1]

\* a tick that takes a ship from the last point of its route to the first,
\* next to a ship without a route
C31_RouteWraps ==
    /\ last.op = "update"
    /\ \E m \in Patrols : m.patrolIndex = <<1, 0>>
    /\ \E m \in Patrols : m.patrolPoints = <<>>

\* the tick found the player under way and left it within 20 units of the
\* waypoint that was set
Arrives ==
    /\ last.pre.waypoint # <<>>
    /\ last.pre.velocity > 0
    /\ Abs(last.pre.waypoint[1] - playerShip.x) < 20 * Scale

\* C32: a tick clears a waypoint that is set, emits waypointCleared and logs
\* the arrival exactly when the velocity of the player is above 0 and the
\* waypoint is less than 20 units away after the move; it leaves the
\* velocity and the heading of the player as they are, and with velocity 0
\* it leaves the waypoint.
C32_WaypointCleared ==
    last.op = "update" =>
        /\ waypoint = IF Arrives THEN <<>> ELSE last.pre.waypoint
        /\ Len(RefsOf(last.emitted, "waypointCleared")) = IF Arrives THEN 1 ELSE 0
        /\ Len(SelectSeq(RefsOf(last.emitted, "commsMessage"),
                         LAMBDA sender : sender = "NAVIGATION"))
               = IF Arrives THEN 1 ELSE 0
        /\ playerShip.velocity = last.pre.velocity
        /\ playerShip.heading = last.pre.heading

\* the second tick of a course brings the player within 20 units of the
\* waypoint: the waypoint goes, the ship sails on
C32_SailsOn ==
    /\ last.op = "update" /\ Arrives
    /\ gameTime = 2
    /\ playerShip.x = 4 * Scale
    /\ waypoint = <<>> /\ playerShip.velocity > 0

\* what the regeneration phases of the last step found and left
Regenerations == {last.regen[k] : k \in 1..Len(last.regen)}

\* C33: the regeneration phase raises the shieldStrength of a ship, the
\* player's or another, by 0.1 * (shields power / 100) * (shields hp / 100),
\* and to maxShieldStrength at most, when the shields have power > 0 and
\* hp > 0 and shieldStrength is below maxShieldStrength; otherwise it leaves
\* shieldStrength as it is.
C33_ShieldRegeneration ==
    \A r \in Regenerations :
        /\ r.after =
               IF r.power > 0 /\ r.hp > 0 /\ r.before < r.maxShieldStrength
               THEN Min(r.before + (r.power * r.hp) \div (100 * Scale),
                        r.maxShieldStrength)
               ELSE r.before
        /\ r.after <= r.maxShieldStrength

\* a tick that fills the shields of one ship to their maximum and leaves
\* the unpowered shields of another as they are
C33_FilledUp ==
    /\ last.op = "update"
    /\ \E r \in Regenerations :
           /\ r.id # Player /\ r.before < r.after
           /\ r.after = r.maxShieldStrength
           /\ r.after < r.before + (r.power * r.hp) \div (100 * Scale)
    /\ \E r \in Regenerations :
           r.power = 0 /\ r.before < r.maxShieldStrength /\ r.after = r.before

\* the hull damage of a damageShip call: the damage the shields left
HullDamageOf(c) == c.damage - (c.shieldBefore - c.shieldAfter)

\* the subsystems a damageShip call left with another hp
Lowered(c) == {s \in Systems : c.hpAfter[s] # c.hpBefore[s]}

\* C34: whatever damageShip and repairSubsystem calls were made, the hp of
\* every subsystem is within 0..100; one damageShip call lowers the hp of at
\* most one subsystem, by half its hull damage and to 0 at least, and only
\* when its hull damage is above 5.
C34_SubsystemHp ==
    /\ \A ship \in AllShips : \A s \in Systems :
           0 <= ship.subsystems[s].hp /\ ship.subsystems[s].hp <= 100 * Scale
    /\ \A c \in Calls :
           /\ Cardinality(Lowered(c)) <= 1
           /\ \A s \in Lowered(c) :
                  /\ HullDamageOf(c) > 5 * Scale
                  /\ c.hpAfter[s] = Max(0, c.hpBefore[s] - HullDamageOf(c) \div 2)

\* a repair that fills a subsystem a hit has damaged to 100 and no further
C34_RepairedInFull ==
    /\ last.op = "repairSubsystem" /\ last.ret
    /\ last.args.system \in Systems
    /\ last.pre.subsystems[last.args.system].hp > 75 * Scale
    /\ playerShip.subsystems[last.args.system].hp = 100 * Scale

\* the views the shipDestroyed callbacks of the last step had of the target
Sightings == SelectSeq(last.seen, LAMBDA v : v.kind = "shipDestroyed")

\* C35: provided setTarget was only ever called with null or the id of a
\* ship then in the world, currentTarget is null or the id of a ship in the
\* world in every state, and also whenever a shipDestroyed callback runs.
C35_TargetPresent ==
    ~hist.stray =>
        /\ currentTarget = Null \/ findIndex(ships, currentTarget) > 0
        /\ \A k \in 1..Len(Sightings) : Sightings[k].target # "undefined"

\* C36: whatever the order of start(), stop() and animation frames, stop()
\* called by a callback inside the loop included, at most one animation
\* frame is pending, none is pending while the clock is stopped, and the
\* loop executes no tick once stop() has been called.
C36_StoppedClock ==
    /\ Cardinality(pending) <= 1
    /\ ~sim.running => pending = {}
    /\ last.late = 0

\* C37: no step raises the hull of an NPC, and a hostile found below 0.3 of
\* its hull is in state flee after every AI evaluation from then on, as
\* long as it is in the world: it does not return to attack, approach or
\* patrol and does not hit the player again.
C37_FleeForGood ==
    /\ \A k \in 1..Len(ships) : \A j \in 1..Len(last.pre.ships) :
           ships[k].id = last.pre.ships[j].id =>
               ships[k].hull <= last.pre.ships[j].hull
    /\ \A k \in 1..Len(ships) :
           ships[k].id \in hist.worn => 10 * ships[k].hull < 3 * ships[k].maxHull
    /\ \A e \in Evaluations : e.id \in last.pre.worn => e.state = "flee"
    /\ \A k \in 1..Len(HitsByShips) : HitsByShips[k].by \notin last.pre.worn

\* a hostile that had hit the player, was brought below 0.3 of its hull by
\* the player's phaser and is evaluated in weapons range with working weapons
C37_WornInRange ==
    /\ last.op = "update"
    /\ playerShip.shieldStrength < playerShip.maxShieldStrength
    /\ \E e \in Evaluations :
           /\ e.id \in last.pre.worn
           /\ e.hull < 31 * Scale
           /\ e.dist < 400 * Scale /\ e.weapons > 0
           /\ e.state = "flee"

\* C38: hailShip with an id of no ship in the world changes nothing: no log
\* entry, no delayed response; and a delayed response is added to the log
\* only for a ship that is in the world when its delay elapses.
C38_HailAnswered ==
    /\ (last.op = "hailShip"
           /\ \A k \in 1..Len(last.pre.ships) : last.pre.ships[k].id # last.args.id)
        => /\ StateOf(World(<<>>)) = last.before
           /\ timeouts = last.pre.timeouts
           /\ last.emitted = <<>>
    /\ last.op = "timeout"
        => \E k \in 1..Len(last.pre.ships) : last.pre.ships[k].id = last.args.id

\* C39: the torpedo count of the weapons station stays within 0..10 and only
\* a launch changes it, by exactly 1; a press of the button while the
\* cooldown runs or the magazine is empty does not call fireWeapon; a launch
\* the core rejects takes no torpedo and starts no cooldown.
C39_Magazine ==
    /\ station.torpedoCount \in 0..MagazineSize
    /\ station.torpedoCooldown \in 0..TorpedoReload
    /\ IF last.op = "fireTorpedo" /\ last.asked = 1 /\ last.ret
       THEN /\ station.torpedoCount = last.pre.station.torpedoCount - 1
            /\ Len(projectiles) = last.pre.projectiles + 1
       ELSE /\ station.torpedoCount = last.pre.station.torpedoCount
            /\ last.op \in {"fireTorpedo", "reset"} => station = last.pre.station
    /\ last.op = "fireTorpedo" =>
           /\ last.asked =
                  IF \/ last.pre.station.torpedoCooldown > 0
                     \/ last.pre.station.torpedoCount = 0
                  THEN 0 ELSE 1
           /\ last.asked = 0 => last.emitted = <<>>
           /\ (last.asked = 1 /\ WeaponsOffline(last.pre.subsystems["weapons"]))
                  => ~last.ret /\ Len(projectiles) = last.pre.projectiles

\* the torpedo button pressed with the magazine empty and no cooldown running
C39_MagazineEmpty ==
    /\ last.op = "fireTorpedo"
    /\ last.pre.station = [torpedoCount |-> 0, torpedoCooldown |-> 0]
    /\ Len(projectiles) = MagazineSize

\* ------------------------------------------- the turn of moveNPCShip
\* The turn is a function of the heading, the bearing of the target point
\* and the turn speed.  The ships of Spec stay on the x axis and turn by
\* half a circle or not at all; here a ship is given any heading, turn rate
\* and engine effectiveness and is steered towards any bearing.

\* headings in [0, 360), in thousandths of a degree
Headings == {0, 1 * Scale, 90 * Scale, 179 * Scale + 500, 270 * Scale, 359 * Scale}
\* what Math.atan2 gives, in thousandths of a degree
Bearings == {-179 * Scale, -90 * Scale, -1 * Scale, 0, 500, 90 * Scale, 180 * Scale}
\* the turn rates of the scenario and of createShip
TurnRates == {2, 3}
\* engine effectiveness, in thousandths
Effectivenesses == {0, 250, 500, 1000}

InitTurn ==
    /\ playerShip = createShip(
           [BaseConfig EXCEPT !.id = Player, !.faction = "friendly",
                              !.turnRate = 0,
                              !.maxVelocity = PlayerMaxVelocity * Scale,
                              !.size = PlayerSize * Scale])
    /\ ships = <<>>
    /\ projectiles = <<>>
    /\ phaserBeams = <<>>
    /\ commsLog = <<>>
    /\ currentTarget = Null
    /\ alertLevel = "normal"
    /\ waypoint = <<>>
    /\ gameTime = 0
    /\ isPaused = FALSE
    /\ repairCooldowns = <<>>
    /\ listeners = <<>>
    /\ sim = [lastTick |-> 0, running |-> FALSE, onRender |-> FALSE,
              animationId |-> 0]
    /\ now = 0
    /\ pending = {}
    /\ timeouts = <<>>
    /\ station = [torpedoCount |-> MagazineSize, torpedoCooldown |-> 0]
    /\ uuids = [ship |-> 0, proj |-> 0, frame |-> 0]
    /\ last = <<>>
    /\ hist = <<>>
    /\ budget = NoBudget
    /\ \E heading \in Headings, turnRate \in TurnRates,
          engineEffectiveness \in Effectivenesses :
           steer = [NoSteer EXCEPT !.heading = heading, !.turnRate = turnRate,
                                   !.engineEffectiveness = engineEffectiveness]

\* Simulation.moveNPCShip, the turn towards a target point at `targetAngle'
Steer(targetAngle) ==
    /\ steer.turns < MaxTurns
    /\ steer' = [steer EXCEPT
                    !.from = steer.heading,
                    !.targetAngle = targetAngle,
                    !.turnSpeed = steer.turnRate * steer.engineEffectiveness,
                    !.heading = Turned(steer.heading, targetAngle,
                                       steer.turnRate * steer.engineEffectiveness),
                    !.turns = @ + 1]
    /\ UNCHANGED <<playerShip, ships, projectiles, phaserBeams, commsLog,
                   currentTarget, alertLevel, waypoint, gameTime, isPaused,
                   repairCooldowns, listeners, sim, now, pending, timeouts,
                   station, uuids, last, hist, budget>>

NextTurn == \E targetAngle \in Bearings : Steer(targetAngle)

SpecTurn == InitTurn /\ [][NextTurn]_vars

\* the angle from a to b, going up, in [0, 360)
Upwards(a, b) == (((b - a) % (360 * Scale)) + 360 * Scale) % (360 * Scale)

\* the angle between a and b along the shorter arc
Arc(a, b) == Min(Upwards(a, b), Upwards(b, a))

\* C30: a turn of moveNPCShip moves the heading towards the bearing of the
\* target along the shorter arc by the turn speed turnRate *
\* engineEffectiveness, or by the remaining angle if that is smaller, so
\* that it lands on the bearing and never passes it; the heading it leaves
\* is in [0, 360).
C30_TurnTowards ==
    steer.turns > 0 =>
        /\ 0 <= steer.heading /\ steer.heading < 360 * Scale
        /\ Arc(steer.from, steer.heading)
               = Min(steer.turnSpeed, Arc(steer.from, steer.targetAngle))
        /\ Arc(steer.heading, steer.targetAngle)
               = Arc(steer.from, steer.targetAngle)
                    - Min(steer.turnSpeed, Arc(steer.from, steer.targetAngle))

\* a turn downwards through 0 that ends short of the bearing, and a turn
\* before it
C30_ThroughZero ==
    /\ steer.turns > 1
    /\ steer.turnSpeed > 0
    /\ steer.heading > steer.from
    /\ steer.heading # Upwards(0, steer.targetAngle)
    /\ Upwards(steer.from, steer.targetAngle) > 180 * Scale

====
